---- MODULE Spec2Model ----
(***************************************************************************)
(* Model of the Ethereum blockchain explorer's indexing engine:            *)
(*   - the ingest loop (DatabaseUpdater.fill_database / update_database),  *)
(*   - the per-batch CSV parse and address/token fusion,                   *)
(*   - the atomic store commit taken under the process-wide db_lock,       *)
(*   - the balance phase (BalanceUpdater),                                 *)
(*   - the read handlers that run next to the ingest task,                 *)
(*   - the retrying store wrappers (db_get_wrapper / db_iter_wrapper).     *)
(*                                                                         *)
(* Strings.  A plain TLA+ string stands for a Python string that the code  *)
(* never splits (a hash, an address, a decimal number).  A string that the *)
(* code builds with separators and later splits ('+', '-', '|') is a       *)
(* sequence of such atoms with the separators as atoms of their own.       *)
(* An encoded record (fields joined by NUL) is the tuple of its fields in  *)
(* the order the encoder writes them.  A store key is the tuple of its     *)
(* '-'-separated parts: b'associated-data-<a>-i-<k>' is                    *)
(* <<"associated-data", a, "i", "<k>">>.                                   *)
(***************************************************************************)
EXTENDS Integers, Sequences, FiniteSets, TLC

\* ------------------------------------------------------------------ bounds
\* Highest block height the upstream node ever reports.
MaxHead == 4
\* Number of process kills (followed by a relaunch) in one behaviour.
MaxKills == 1
\* --bulk_size of this deployment (main.py default 10000).
BulkSize == 2
\* --confirmations of this deployment (main.py default 12).
Confirmations == 1

\* Most blocks in the one batch the parse passes are applied to on their own.
MaxBatch == 2

\* ------------------------------------------------------- program constants
RETRY_LIMIT == 10
\* fill_database reports "fell behind" when the node moved this many blocks.
FellBehindGap == 3
\* every SortEvery-th batch runs sort -u on the spill file.
SortEvery == 5

\* Largest number the decimal parser below has to recognise.
MaxInt == 64

\* ------------------------------------------------------------ conversions
\* Python str(n) for an int.
IntToStr(n) == ToString(n)

\* Python int(s) for a decimal string: the number whose decimal form is s.
Parsed ==
    [ s \in { ToString(n) : n \in (0 - MaxInt)..MaxInt } |->
        CHOOSE n \in (0 - MaxInt)..MaxInt : ToString(n) = s ]
StrToInt(s) == Parsed[s]

\* Concatenation of a sequence of atoms into one plain string.
RECURSIVE Concat(_)
Concat(s) == IF s = <<>> THEN "" ELSE Head(s) \o Concat(Tail(s))

\* Python s.split(sep) on an atom sequence: the pieces between the
\* separators, each still an atom sequence; ''.split(sep) is [''].
RECURSIVE SplitFrom(_, _, _)
SplitFrom(s, sep, cur) ==
    IF s = <<>> THEN <<cur>>
    ELSE IF Head(s) = sep THEN <<cur>> \o SplitFrom(Tail(s), sep, <<>>)
    ELSE SplitFrom(Tail(s), sep, Append(cur, Head(s)))

SplitSeq(s, sep) == SplitFrom(s, sep, <<>>)

\* split where every piece is used as a plain string afterwards.
Split(s, sep) == [i \in 1..Len(SplitSeq(s, sep)) |-> Concat(SplitSeq(s, sep)[i])]

\* Python s[:-1] guarded by "s != '' and s[-1] == c".
StripLast(s, c) ==
    IF s # <<>> /\ s[Len(s)] = c THEN SubSeq(s, 1, Len(s) - 1) ELSE s

Range(s) == {s[i] : i \in 1..Len(s)}

\* A local variable: v is computed once and Body sees it under one name.
Bind(v, Body(_)) == Body(v)

\* An insertion-ordered Python dict: the keys in insertion order and the map.
EmptyDict == [order |-> <<>>, d |-> <<>>]
Has(dict, k) == k \in Range(dict.order)
Put(dict, k, v) ==
    IF Has(dict, k)
    THEN [dict EXCEPT !.d = [x \in DOMAIN dict.d |-> IF x = k THEN v ELSE dict.d[x]]]
    ELSE [order |-> Append(dict.order, k),
          d |-> [x \in DOMAIN dict.d \cup {k} |-> IF x = k THEN v ELSE dict.d[x]]]
Get(dict, k) == dict.d[k]

\* ------------------------------------------------------------------ codec
\* coder.encode_address: the fields in the order written, each followed by
\* NUL, so that a split yields one trailing empty item.
encode_address(address) ==
    << address.balance,
       address.code,
       IntToStr(address.inputTxIndex),
       IntToStr(address.outputTxIndex),
       IntToStr(address.minedIndex),
       address.tokenContract,
       IntToStr(address.inputTokenTxIndex),
       IntToStr(address.outputTokenTxIndex),
       IntToStr(address.inputIntTxIndex),
       IntToStr(address.outputIntTxIndex),
       "" >>

decode_address(raw) ==
    [ balance            |-> raw[1],
      code               |-> raw[2],
      inputTxIndex       |-> StrToInt(raw[3]),
      outputTxIndex      |-> StrToInt(raw[4]),
      minedIndex         |-> StrToInt(raw[5]),
      tokenContract      |-> raw[6],
      inputTokenTxIndex  |-> StrToInt(raw[7]),
      outputTokenTxIndex |-> StrToInt(raw[8]),
      inputIntTxIndex    |-> StrToInt(raw[9]),
      outputIntTxIndex   |-> StrToInt(raw[10]) ]

\* coder.encode_block: no NUL after the last field (transactions).
encode_block(block) ==
    << block.hash, block.parentHash, block.nonce, block.logsBloom, block.miner,
       block.difficulty, block.totalDifficulty, block.extraData, block.size,
       block.gasLimit, block.gasUsed, block.timestamp, block.sha3Uncles,
       block.transactions >>

decode_block(raw) ==
    [ hash |-> raw[1], parentHash |-> raw[2], nonce |-> raw[3],
      logsBloom |-> raw[4], miner |-> raw[5], difficulty |-> raw[6],
      totalDifficulty |-> raw[7], extraData |-> raw[8], size |-> raw[9],
      gasLimit |-> raw[10], gasUsed |-> raw[11], timestamp |-> raw[12],
      sha3Uncles |-> raw[13], transactions |-> raw[14] ]

\* coder.encode_transaction.  The hash is not part of the value (it is the
\* key).  from/to come from CSV cells and are never None here.
encode_transaction(tx) ==
    << tx.blockHash, tx.blockNumber, tx.from, tx.to, tx.gas, tx.gasPrice,
       tx.input, tx.nonce, tx.value, tx.cumulativeGasUsed, tx.gasUsed,
       tx.logs, tx.contractAddress, tx.timestamp,
       IntToStr(tx.internalTxIndex), "" >>

\* coder.decode_transaction, with the logs field parsed into entries.
decode_logs(logs) ==
    LET stripped == StripLast(logs, "|")
        parts == SplitSeq(stripped, "|")
        entry(log) ==
            LET fields == SplitSeq(log, "+")
            IN [ data |-> Concat(fields[1]),
                 topics |-> IF Len(fields) = 2 THEN Split(fields[2], "-")
                            ELSE <<>> ]
    IN [i \in 1..Len(parts) |-> entry(parts[i])]

decode_transaction(raw) ==
    [ blockHash |-> raw[1], blockNumber |-> raw[2], from |-> raw[3],
      to |-> raw[4], gas |-> raw[5], gasPrice |-> raw[6], input |-> raw[7],
      nonce |-> raw[8], value |-> raw[9], cumulativeGasUsed |-> raw[10],
      gasUsed |-> raw[11], logs |-> decode_logs(raw[12]),
      contractAddress |-> raw[13], timestamp |-> raw[14],
      internalTxIndex |-> StrToInt(raw[15]) ]

encode_token(token) ==
    << token.symbol, token.name, token.decimals, token.totalSupply,
       token.type, IntToStr(token.txIndex), "" >>

decode_token(raw) ==
    [ symbol |-> raw[1], name |-> raw[2], decimals |-> raw[3],
      totalSupply |-> raw[4], type |-> raw[5], txIndex |-> StrToInt(raw[6]) ]

encode_token_tx(t) ==
    << t.tokenAddress, t.addressFrom, t.addressTo, t.value,
       t.transactionHash, t.timestamp, "" >>

decode_token_tx(raw) ==
    [ tokenAddress |-> raw[1], addressFrom |-> raw[2], addressTo |-> raw[3],
      value |-> raw[4], transactionHash |-> raw[5], timestamp |-> raw[6] ]

encode_internal_tx(t) ==
    << t.from, t.to, t.value, t.input, t.output, t.traceType, t.callType,
       t.rewardType, t.gas, t.gasUsed, t.transactionHash, t.timestamp,
       t.error, "" >>

decode_internal_tx(raw) ==
    [ from |-> raw[1], to |-> raw[2], value |-> raw[3], input |-> raw[4],
      output |-> raw[5], traceType |-> raw[6], callType |-> raw[7],
      rewardType |-> raw[8], gas |-> raw[9], gasUsed |-> raw[10],
      transactionHash |-> raw[11], timestamp |-> raw[12], error |-> raw[13] ]

\* ------------------------------------------------------- upstream chain
\* The canonical chain is a sequence of block shapes: chain[n + 1] is the
\* shape of block n.  The shapes cover an empty block, plain transfers (one
\* of them from an address to itself), a contract creation flagged ERC-20
\* and a call that emits token transfers and two internal transactions.
A1 == "0xa1"
A2 == "0xa2"
\* touched by a token transfer only
A3 == "0xa3"
C1 == "0xc1"
Shapes == 1..4

BlockHash(n) == "0xb" \o ToString(n)
TxHash(n, i) == "0x" \o ToString(n) \o "f" \o ToString(i)
\* block timestamps strictly increase along the chain
Timestamp(n) == ToString(10 + n)

Miner(t) == IF t \in {1, 3} THEN A1 ELSE A2

\* blocks.csv row of block n
BlockRow(n, t) ==
    [ number |-> ToString(n), hash |-> BlockHash(n),
      parent_hash |-> IF n = 0 THEN "0x00" ELSE BlockHash(n - 1),
      nonce |-> "0x1", logs_bloom |-> "0x0", miner |-> Miner(t),
      difficulty |-> "1", total_difficulty |-> ToString(n + 1),
      extra_data |-> "0x", size |-> "1", gas_limit |-> "9", gas_used |-> "0",
      timestamp |-> Timestamp(n), sha3_uncles |-> "0x2" ]

TxRow(n, i, from, to, value) ==
    [ block_hash |-> BlockHash(n), block_number |-> ToString(n),
      from_address |-> from, to_address |-> to, gas |-> "1",
      gas_price |-> "1", hash |-> TxHash(n, i), input |-> "0x",
      nonce |-> "0", value |-> value, transaction_index |-> ToString(i) ]

\* transactions.csv rows of block n
TxRows(n, t) ==
    CASE t = 1 -> <<>>
      [] t = 2 -> << TxRow(n, 0, A1, A2, "5"), TxRow(n, 1, A2, A2, "0") >>
      [] t = 3 -> << TxRow(n, 0, A1, "", "0") >>
      [] t = 4 -> << TxRow(n, 0, A2, C1, "0") >>

\* receipts.csv rows: one per transaction
ReceiptRows(n, t) ==
    [ i \in 1..Len(TxRows(n, t)) |->
        [ transaction_hash |-> TxRows(n, t)[i].hash,
          cumulative_gas_used |-> "1", gas_used |-> "1",
          contract_address |-> IF t = 3 THEN C1 ELSE "" ] ]

\* logs.csv rows; topics is the cell already cut at its commas
LogRows(n, t) ==
    IF t = 4
    THEN << [ transaction_hash |-> TxHash(n, 0), data |-> "0x07",
              topics |-> << "0xdd", A2, A1 >> ],
            [ transaction_hash |-> TxHash(n, 0), data |-> "0x02",
              topics |-> << "0xdd", A1, A3 >> ] >>
    ELSE <<>>

\* contracts.csv rows
ContractRows(n, t) ==
    IF t = 3
    THEN << [ address |-> C1, bytecode |-> "0x60",
              is_erc20 |-> "True", is_erc721 |-> "False" ] >>
    ELSE <<>>

\* tokens.csv rows (the flagged contracts of this batch)
TokenRows(n, t) ==
    IF t = 3
    THEN << [ address |-> C1, symbol |-> "TK", name |-> "Token",
              decimals |-> "18", total_supply |-> "100" ] >>
    ELSE <<>>

\* token_transfers.csv rows (extracted from the logs)
TokenTransferRows(n, t) ==
    IF t = 4
    THEN << [ token_address |-> C1, from_address |-> A2, to_address |-> A1,
              value |-> "7", transaction_hash |-> TxHash(n, 0) ],
            [ token_address |-> C1, from_address |-> A1, to_address |-> A3,
              value |-> "2", transaction_hash |-> TxHash(n, 0) ] >>
    ELSE <<>>

\* traces.csv rows
TraceRows(n, t) ==
    IF t = 4
    THEN << [ block_number |-> ToString(n), transaction_index |-> "0",
              from_address |-> C1, to_address |-> A1, value |-> "3",
              input |-> "0x", output |-> "0x", trace_type |-> "call",
              call_type |-> "call", reward_type |-> "", gas |-> "1",
              gas_used |-> "1", error |-> "" ],
            [ block_number |-> ToString(n), transaction_index |-> "0",
              from_address |-> C1, to_address |-> A1, value |-> "1",
              input |-> "0x", output |-> "0x", trace_type |-> "call",
              call_type |-> "call", reward_type |-> "", gas |-> "1",
              gas_used |-> "1", error |-> "" ] >>
    ELSE <<>>

BlockRows(n, t) == << BlockRow(n, t) >>

\* The rows of one CSV file for the blocks ns (in order) of chain ch.
RECURSIVE RowsOf(_, _, _)
RowsOf(F(_, _), ch, ns) ==
    IF ns = <<>> THEN <<>>
    ELSE F(Head(ns), ch[Head(ns) + 1]) \o RowsOf(F, ch, Tail(ns))

\* DataRetriever.create_csv_files(first, last): the extractor is run for
\* blocks first .. last - 1.
WindowBlocks(first, last) == [i \in 1..(last - first) |-> first + i - 1]

\* ------------------------------------------------------- CSV parse passes
\* Marks a dict entry that has no such key.
NoKey == "<no key>"

RECURSIVE FoldSeq(_, _, _)
FoldSeq(Op(_, _), acc, seq) ==
    IF seq = <<>> THEN acc ELSE FoldSeq(Op, Op(acc, Head(seq)), Tail(seq))

\* A plain key -> value map (a dict whose order is never used).
MapPut(m, k, v) == [x \in DOMAIN m \cup {k} |-> IF x = k THEN v ELSE m[x]]

\* The address entry every "not in addresses" branch creates.
NewAddress ==
    [ code |-> "0x", tokenContract |-> NoKey, mined |-> <<>>,
      newInputTxs |-> <<>>, newOutputTxs |-> <<>>,
      newInputTokens |-> <<>>, newOutputTokens |-> <<>>,
      newIntInputTxs |-> <<>>, newIntOutputTxs |-> <<>> ]

\* "if a not in addresses and a != '': create with [delta] / elif a != '':
\* append delta", the pattern of every pass that touches an address.
AddDelta(addresses, a, field, delta) ==
    IF a = "" THEN addresses
    ELSE IF ~Has(addresses, a)
         THEN Put(addresses, a, [NewAddress EXCEPT ![field] = <<delta>>])
         ELSE Put(addresses, a, [Get(addresses, a) EXCEPT ![field] = Append(@, delta)])

\* gather_blocks, the blocks.csv loop
block_row_step(acc, row) ==
    LET block == [ number |-> row.number, hash |-> row.hash,
                   parentHash |-> row.parent_hash, nonce |-> row.nonce,
                   logsBloom |-> row.logs_bloom, miner |-> row.miner,
                   difficulty |-> row.difficulty,
                   totalDifficulty |-> row.total_difficulty,
                   extraData |-> row.extra_data, size |-> row.size,
                   gasLimit |-> row.gas_limit, gasUsed |-> row.gas_used,
                   timestamp |-> row.timestamp, sha3Uncles |-> row.sha3_uncles,
                   transactions |-> <<>> ]
    IN [ blocks |-> Put(acc.blocks, block.hash, block),
         miners |-> Append(acc.miners, <<block.miner, block.hash>>) ]

\* gather_transactions, the transactions.csv loop body
tx_row_step(acc, row) ==
    LET transaction ==
            [ blockHash |-> row.block_hash, blockNumber |-> row.block_number,
              from |-> row.from_address, to |-> row.to_address,
              gas |-> row.gas, gasPrice |-> row.gas_price, hash |-> row.hash,
              input |-> row.input, nonce |-> row.nonce, value |-> row.value,
              internalTxIndex |-> 0,
              timestamp |-> Get(acc.blocks, row.block_hash).timestamp,
              cumulativeGasUsed |-> NoKey, gasUsed |-> NoKey,
              contractAddress |-> NoKey, hasLogs |-> FALSE, logs |-> <<>> ]
        delta == <<transaction.hash, transaction.value, transaction.timestamp>>
        withFrom == AddDelta(acc.addresses, transaction.from, "newOutputTxs", delta)
        withTo == AddDelta(withFrom, transaction.to, "newInputTxs", delta)
    IN [ transactions |-> Put(acc.transactions, transaction.hash, transaction),
         addresses |-> withTo,
         internal_tx_asoc |->
             MapPut(acc.internal_tx_asoc,
                    row.block_number \o "-" \o row.transaction_index, row.hash),
         blocks |-> Put(acc.blocks, transaction.blockHash,
                        [Get(acc.blocks, transaction.blockHash) EXCEPT
                            !.transactions = @ \o <<transaction.hash, "+">>]) ]

\* The '+' after the last hash left in place.
strip_separators_none(blocks) == blocks

\* gather_transactions, "Remove last separator"
strip_separators(blocks) ==
    [blocks EXCEPT !.d = [h \in DOMAIN blocks.d |->
        [blocks.d[h] EXCEPT !.transactions = StripLast(@, "+")]]]

\* gather_receipts, the receipts.csv loop body
receipt_row_step(acc, row) ==
    [ acc EXCEPT
        !.transactions = Put(@, row.transaction_hash,
            [Get(@, row.transaction_hash) EXCEPT
                !.cumulativeGasUsed = row.cumulative_gas_used,
                !.gasUsed = row.gas_used,
                !.contractAddress = row.contract_address]),
        !.addresses =
            IF ~Has(@, row.contract_address) /\ row.contract_address # ""
            THEN Put(@, row.contract_address, NewAddress) ELSE @ ]

\* gather_receipts, the logs.csv loop body: the field is rebuilt from this
\* row alone, and the last topic is appended once more before the '|'.
log_row_step(acc, row) ==
    LET start == <<row.data, "+">>
        RECURSIVE topics_part(_)
        topics_part(ts) ==
            IF ts = <<>> THEN <<>> ELSE <<Head(ts), "-">> \o topics_part(Tail(ts))
        joined == start \o topics_part(row.topics)
        stripped == StripLast(StripLast(joined, "-"), "+")
        topic == row.topics[Len(row.topics)]
        logs == stripped \o <<topic, "|">>
    IN [ acc EXCEPT
           !.transactions = Put(@, row.transaction_hash,
               [Get(@, row.transaction_hash) EXCEPT
                   !.hasLogs = TRUE, !.logs = logs]) ]

\* gather_receipts, the contracts.csv loop body
contract_row_step(acc, row) ==
    LET n == acc.highest_contract_code + 1
        a0 == Get(acc.addresses, row.address)
        a1 == [a0 EXCEPT !.code = IntToStr(n)]
        a2 == IF row.is_erc20 = "True"
              THEN [a1 EXCEPT !.tokenContract = "ERC-20"] ELSE a1
        a3 == IF row.is_erc721 = "True"
              THEN [a2 EXCEPT !.tokenContract = "ERC-721"] ELSE a2
    IN [ acc EXCEPT
           !.highest_contract_code = n,
           !.address_code_asoc =
               MapPut(@, <<"address-contract", IntToStr(n)>>, row.bytecode),
           !.addresses = Put(@, row.address, a3) ]

\* gather_blocks, the miners loop body
miner_step(addresses, miner) ==
    IF ~Has(addresses, miner[1])
    THEN Put(addresses, miner[1], [NewAddress EXCEPT !.mined = <<miner[2]>>])
    ELSE Put(addresses, miner[1],
             [Get(addresses, miner[1]) EXCEPT !.mined = Append(@, miner[2])])

\* gather_blocks with gather_transactions and gather_receipts inside it.
\* csv holds the rows of every file; hcc is _highest_contract_code.
gather_blocks(csv, hcc) ==
    Bind(FoldSeq(block_row_step, [blocks |-> EmptyDict, miners |-> <<>>],
                 csv.blocks), LAMBDA b :
    Bind(FoldSeq(tx_row_step,
                 [ transactions |-> EmptyDict, addresses |-> EmptyDict,
                   internal_tx_asoc |-> <<>>, blocks |-> b.blocks ],
                 csv.transactions), LAMBDA t :
    Bind(FoldSeq(receipt_row_step,
                 [ transactions |-> t.transactions, addresses |-> t.addresses ],
                 csv.receipts), LAMBDA r :
    Bind(FoldSeq(log_row_step, r, csv.logs), LAMBDA l :
    Bind(FoldSeq(contract_row_step,
                 [ transactions |-> l.transactions, addresses |-> l.addresses,
                   address_code_asoc |-> <<>>, highest_contract_code |-> hcc ],
                 csv.contracts), LAMBDA c :
    [ blocks |-> strip_separators(t.blocks),
      transactions |-> c.transactions,
      addresses |-> FoldSeq(miner_step, c.addresses, b.miners),
      address_code_asoc |-> c.address_code_asoc,
      int_tx_asoc |-> t.internal_tx_asoc,
      highest_contract_code |-> c.highest_contract_code ])))))

\* gather_tokens, the tokens.csv loop body
token_row_step(tokens, row) ==
    Put(tokens, row.address,
        [ symbol |-> row.symbol, name |-> row.name, decimals |-> row.decimals,
          totalSupply |-> row.total_supply, txIndex |-> 0,
          transactions |-> <<>>, type |-> NoKey ])

\* gather_tokens
gather_tokens(csv, transactions) ==
    LET transfer(row) ==
            [ tokenAddress |-> row.token_address,
              addressFrom |-> row.from_address, addressTo |-> row.to_address,
              value |-> row.value, transactionHash |-> row.transaction_hash,
              timestamp |-> Get(transactions, row.transaction_hash).timestamp ]
    IN [ tokens |-> FoldSeq(token_row_step, EmptyDict, csv.tokens),
         token_txs |-> [i \in 1..Len(csv.token_transfers) |->
                           transfer(csv.token_transfers[i])] ]

\* The tit entry keyed by the global index instead of the local one.
trace_row_step_global_key(acc, row) ==
    LET tx_hash == acc.int_tx_asoc[row.block_number \o "-" \o row.transaction_index]
        n == acc.highest_internal_tx + 1
        parent == Get(acc.transactions, tx_hash)
        int_tx == [ from |-> row.from_address, to |-> row.to_address,
                    value |-> row.value, input |-> row.input,
                    output |-> row.output, traceType |-> row.trace_type,
                    callType |-> row.call_type, rewardType |-> row.reward_type,
                    gas |-> row.gas, gasUsed |-> row.gas_used,
                    transactionHash |-> tx_hash, timestamp |-> parent.timestamp,
                    error |-> row.error ]
        k == parent.internalTxIndex + 1
        delta == <<n, int_tx.value, int_tx.timestamp>>
        withFrom == AddDelta(acc.addresses, int_tx.from, "newIntOutputTxs", delta)
        withTo == AddDelta(withFrom, int_tx.to, "newIntInputTxs", delta)
    IN [ acc EXCEPT
           !.highest_internal_tx = n,
           !.internal_txs = MapPut(@, n, int_tx),
           !.transactions = Put(@, tx_hash, [parent EXCEPT !.internalTxIndex = k]),
           !.txs_write_dict =
               MapPut(@, <<"associated-data", tx_hash, "tit", IntToStr(n)>>,
                      IntToStr(n)),
           !.addresses = withTo ]

\* gather_internal_txs, the traces.csv loop body
trace_row_step(acc, row) ==
    LET tx_hash == acc.int_tx_asoc[row.block_number \o "-" \o row.transaction_index]
        n == acc.highest_internal_tx + 1
        parent == Get(acc.transactions, tx_hash)
        int_tx == [ from |-> row.from_address, to |-> row.to_address,
                    value |-> row.value, input |-> row.input,
                    output |-> row.output, traceType |-> row.trace_type,
                    callType |-> row.call_type, rewardType |-> row.reward_type,
                    gas |-> row.gas, gasUsed |-> row.gas_used,
                    transactionHash |-> tx_hash, timestamp |-> parent.timestamp,
                    error |-> row.error ]
        k == parent.internalTxIndex + 1
        delta == <<n, int_tx.value, int_tx.timestamp>>
        withFrom == AddDelta(acc.addresses, int_tx.from, "newIntOutputTxs", delta)
        withTo == AddDelta(withFrom, int_tx.to, "newIntInputTxs", delta)
    IN [ acc EXCEPT
           !.highest_internal_tx = n,
           !.internal_txs = MapPut(@, n, int_tx),
           !.transactions = Put(@, tx_hash, [parent EXCEPT !.internalTxIndex = k]),
           !.txs_write_dict =
               MapPut(@, <<"associated-data", tx_hash, "tit", IntToStr(k)>>,
                      IntToStr(n)),
           !.addresses = withTo ]

\* gather_internal_txs
gather_internal_txs(csv, addresses, transactions, int_tx_asoc, hit) ==
    FoldSeq(trace_row_step,
            [ addresses |-> addresses, transactions |-> transactions,
              txs_write_dict |-> <<>>, internal_txs |-> <<>>,
              int_tx_asoc |-> int_tx_asoc, highest_internal_tx |-> hit ],
            csv.traces)

\* ------------------------------------------------- address / token fusion
\* A transfer of an unknown token is dropped but its index is used up.
expand_token_step_skip(db, tokens, acc, token_tx) ==
    IF <<"token", token_tx.tokenAddress>> \in DOMAIN db \/ Has(tokens, token_tx.tokenAddress)
    THEN [ acc EXCEPT
             !.full_tokens =
                 Put(@, token_tx.tokenAddress,
                     IF <<"token", token_tx.tokenAddress>> \in DOMAIN db
                     THEN [ decode_token(db[<<"token", token_tx.tokenAddress>>])
                              @@ [transactions |-> <<>>] EXCEPT !.transactions = <<>> ]
                     ELSE Get(tokens, token_tx.tokenAddress)),
             !.filtered_txs = Put(@, acc.highest_token_tx + 1, token_tx),
             !.highest_token_tx = @ + 1 ]
    ELSE [ acc EXCEPT !.highest_token_tx = @ + 1 ]

\* expand_tokens, the token_txs loop body.  db is the store.
expand_token_step(db, tokens, acc, token_tx) ==
    LET addr == token_tx.tokenAddress
        key == <<"token", addr>>
        n == acc.highest_token_tx + 1
    IN IF key \in DOMAIN db
       THEN [ full_tokens |->
                  Put(acc.full_tokens, addr,
                      [ symbol |-> decode_token(db[key]).symbol,
                        name |-> decode_token(db[key]).name,
                        decimals |-> decode_token(db[key]).decimals,
                        totalSupply |-> decode_token(db[key]).totalSupply,
                        type |-> decode_token(db[key]).type,
                        txIndex |-> decode_token(db[key]).txIndex,
                        transactions |-> <<>> ]),
              filtered_txs |-> Put(acc.filtered_txs, n, token_tx),
              highest_token_tx |-> n ]
       ELSE IF Has(tokens, addr)
       THEN [ full_tokens |-> Put(acc.full_tokens, addr, Get(tokens, addr)),
              filtered_txs |-> Put(acc.filtered_txs, n, token_tx),
              highest_token_tx |-> n ]
       ELSE acc

\* expand_tokens
expand_tokens(db, tokens, token_txs, htt) ==
    LET step(acc, token_tx) == expand_token_step(db, tokens, acc, token_tx)
        e == FoldSeq(step,
                     [ full_tokens |-> EmptyDict, filtered_txs |-> EmptyDict,
                       highest_token_tx |-> htt ],
                     token_txs)
        rest(full, token) ==
            IF ~Has(full, token) THEN Put(full, token, Get(tokens, token)) ELSE full
    IN [e EXCEPT !.full_tokens = FoldSeq(rest, @, tokens.order)]

\* fill_addresses_tokens
fill_addresses_tokens(addresses, tokens, token_txs) ==
    LET step(acc, token_tx_index) ==
            LET token_tx == Get(token_txs, token_tx_index)
                delta == <<token_tx_index, token_tx.timestamp>>
                withFrom == AddDelta(acc.addresses, token_tx.addressFrom,
                                     "newOutputTokens", delta)
                withTo == AddDelta(withFrom, token_tx.addressTo,
                                   "newInputTokens", delta)
            IN [ addresses |-> withTo,
                 tokens |-> Put(acc.tokens, token_tx.tokenAddress,
                                [Get(acc.tokens, token_tx.tokenAddress) EXCEPT
                                    !.transactions = Append(@, delta)]) ]
    IN FoldSeq(step, [addresses |-> addresses, tokens |-> tokens],
               token_txs.order)

\* Entries numbered from last instead of last + 1: the first delta lands on
\* the index of the newest entry already stored.
RECURSIVE AssocEntriesFromLast(_, _, _, _, _)
AssocEntriesFromLast(wd, addr, tag, last, payloads) ==
    IF payloads = <<>> THEN wd
    ELSE AssocEntriesFromLast(
             MapPut(wd, <<"associated-data", addr, tag, IntToStr(last)>>,
                    Head(payloads)),
             addr, tag, last + 1, Tail(payloads))

\* One associated-data entry per delta, numbered from last + 1.
RECURSIVE AssocEntries(_, _, _, _, _)
AssocEntries(wd, addr, tag, last, payloads) ==
    IF payloads = <<>> THEN wd
    ELSE AssocEntries(
             MapPut(wd, <<"associated-data", addr, tag, IntToStr(last + 1)>>,
                    Head(payloads)),
             addr, tag, last + 1, Tail(payloads))

\* str(x[0]) + '-' + str(x[1]) + '-' + str(x[2]) of a transaction delta
Payload3(x) == << x[1], "-", x[2], "-", x[3] >>
\* the same for an internal-transaction delta, whose first part is an int
IntPayload3(x) == << IntToStr(x[1]), "-", x[2], "-", x[3] >>
\* str(x[0]) + '-' + str(x[1]) of a token-transfer delta
Payload2(x) == << IntToStr(x[1]), "-", x[2] >>

\* fill_addresses, the body of the loop over the batch's addresses
fill_address_step(db, acc, addr_hash) ==
    LET addr_dict == Get(acc.addresses, addr_hash)
        key == <<"address", addr_hash>>
        exists == key \in DOMAIN db
        existing_address == decode_address(db[key])
        last(field) == IF exists THEN existing_address[field] ELSE 0
        hasType == IF exists THEN TRUE ELSE addr_dict.tokenContract # NoKey
        tokenContract ==
            IF exists THEN existing_address.tokenContract
            ELSE IF addr_dict.tokenContract # NoKey THEN addr_dict.tokenContract
            ELSE "False"
        tokens1 ==
            IF hasType /\ Has(acc.updated_tokens, addr_hash)
            THEN Put(acc.updated_tokens, addr_hash,
                     [Get(acc.updated_tokens, addr_hash) EXCEPT
                         !.type = tokenContract])
            ELSE acc.updated_tokens
        w1 == AssocEntries(acc.addresses_write_dict, addr_hash, "i",
                  last("inputTxIndex"),
                  [i \in 1..Len(addr_dict.newInputTxs) |->
                      Payload3(addr_dict.newInputTxs[i])])
        w2 == AssocEntries(w1, addr_hash, "o", last("outputTxIndex"),
                  [i \in 1..Len(addr_dict.newOutputTxs) |->
                      Payload3(addr_dict.newOutputTxs[i])])
        w3 == AssocEntries(w2, addr_hash, "b", last("minedIndex"),
                  addr_dict.mined)
        address_encode ==
            [ tokenContract |-> tokenContract,
              balance |-> "null",
              code |-> IF exists THEN existing_address.code ELSE addr_dict.code,
              inputTxIndex |-> last("inputTxIndex") + Len(addr_dict.newInputTxs),
              outputTxIndex |-> last("outputTxIndex") + Len(addr_dict.newOutputTxs),
              inputTokenTxIndex |-> last("inputTokenTxIndex"),
              outputTokenTxIndex |-> last("outputTokenTxIndex"),
              inputIntTxIndex |-> last("inputIntTxIndex"),
              outputIntTxIndex |-> last("outputIntTxIndex"),
              minedIndex |-> last("minedIndex") + Len(addr_dict.mined) ]
    IN [ acc EXCEPT
           !.updated_tokens = tokens1,
           !.addresses_write_dict = w3,
           !.addresses_encode = Put(@, addr_hash, address_encode) ]

\* fill_addrs_token_txs, the loop over the addresses
fill_addr_token_step(acc, addr_hash) ==
    LET addr_dict == Get(acc.addresses, addr_hash)
        enc == Get(acc.addresses_encode, addr_hash)
        w1 == AssocEntries(acc.addresses_write_dict, addr_hash, "ti",
                  enc.inputTokenTxIndex,
                  [i \in 1..Len(addr_dict.newInputTokens) |->
                      Payload2(addr_dict.newInputTokens[i])])
        w2 == AssocEntries(w1, addr_hash, "to", enc.outputTokenTxIndex,
                  [i \in 1..Len(addr_dict.newOutputTokens) |->
                      Payload2(addr_dict.newOutputTokens[i])])
    IN [ acc EXCEPT
           !.addresses_write_dict = w2,
           !.addresses_encode = Put(@, addr_hash,
               [enc EXCEPT
                   !.inputTokenTxIndex = @ + Len(addr_dict.newInputTokens),
                   !.outputTokenTxIndex = @ + Len(addr_dict.newOutputTokens)]) ]

\* fill_addrs_token_txs, the loop over the tokens
fill_token_step(acc, token_addr) ==
    LET token_dict == Get(acc.updated_tokens, token_addr)
    IN [ acc EXCEPT
           !.addresses_write_dict =
               AssocEntries(@, token_addr, "tt", token_dict.txIndex,
                   [i \in 1..Len(token_dict.transactions) |->
                       Payload2(token_dict.transactions[i])]),
           !.updated_tokens = Put(@, token_addr,
               [token_dict EXCEPT !.txIndex = @ + Len(token_dict.transactions)]) ]

\* fill_addrs_int_txs, the loop over the addresses
fill_addr_int_step(acc, addr_hash) ==
    LET addr_dict == Get(acc.addresses, addr_hash)
        enc == Get(acc.addresses_encode, addr_hash)
        w1 == AssocEntries(acc.addresses_write_dict, addr_hash, "ii",
                  enc.inputIntTxIndex,
                  [i \in 1..Len(addr_dict.newIntInputTxs) |->
                      IntPayload3(addr_dict.newIntInputTxs[i])])
        w2 == AssocEntries(w1, addr_hash, "io", enc.outputIntTxIndex,
                  [i \in 1..Len(addr_dict.newIntOutputTxs) |->
                      IntPayload3(addr_dict.newIntOutputTxs[i])])
    IN [ acc EXCEPT
           !.addresses_write_dict = w2,
           !.addresses_encode = Put(@, addr_hash,
               [enc EXCEPT
                   !.inputIntTxIndex = @ + Len(addr_dict.newIntInputTxs),
                   !.outputIntTxIndex = @ + Len(addr_dict.newIntOutputTxs)]) ]

\* fill_addresses
fill_addresses(db, addresses, tokens, token_txs, htt) ==
    Bind(expand_tokens(db, tokens, token_txs, htt), LAMBDA e :
    Bind(fill_addresses_tokens(addresses, e.full_tokens, e.filtered_txs),
         LAMBDA t :
    Bind(FoldSeq(LAMBDA acc, a : fill_address_step(db, acc, a),
                 [ addresses |-> t.addresses, updated_tokens |-> t.tokens,
                   addresses_encode |-> EmptyDict,
                   addresses_write_dict |-> <<>> ],
                 t.addresses.order), LAMBDA s1 :
    Bind(FoldSeq(fill_addr_token_step, s1, t.addresses.order), LAMBDA s2 :
    Bind(FoldSeq(fill_token_step, s2, s2.updated_tokens.order), LAMBDA s3 :
    Bind(FoldSeq(fill_addr_int_step, s3, t.addresses.order), LAMBDA s4 :
    [ addresses |-> s4.addresses_encode,
      addresses_write_dict |-> s4.addresses_write_dict,
      tokens |-> s4.updated_tokens,
      token_txs |-> e.filtered_txs,
      highest_token_tx |-> e.highest_token_tx ]))))))

\* ------------------------------------------------------------ the commit
\* A later put of a write batch replaces an earlier one for the same key.
Merge(m1, m2) ==
    [k \in DOMAIN m1 \cup DOMAIN m2 |-> IF k \in DOMAIN m2 THEN m2[k] ELSE m1[k]]

\* The timestamp index left out.
block_puts_no_timestamp(wb, block) ==
    MapPut(MapPut(wb,
        <<"block", block.number>>, encode_block(block)),
        <<"hash-block", block.hash>>, block.number)

\* update_bulk_db, the puts of one block
block_puts(wb, block) ==
    MapPut(MapPut(MapPut(wb,
        <<"block", block.number>>, encode_block(block)),
        <<"hash-block", block.hash>>, block.number),
        <<"timestamp-block", block.timestamp>>, block.number)

\* update_bulk_db, the value of one transaction: logs defaults to '' and
\* contractAddress is read with .get(..., '')
transaction_value(tx) ==
    encode_transaction(
        [tx EXCEPT !.contractAddress = IF @ = NoKey THEN "" ELSE @])

\* encode_token raises KeyError for a token without 'type', and
\* encode_transaction for a transaction without receipt fields.
encode_raises(transactions, tokens) ==
    \/ \E h \in Range(transactions.order) :
          Get(transactions, h).cumulativeGasUsed = NoKey
    \/ \E a \in Range(tokens.order) : Get(tokens, a).type = NoKey

\* update_bulk_db: the write batch, in the order of the puts
write_batch(blocks, transactions, addresses, tokens, addresses_write_dict, token_txs, address_code_asoc, internal_txs, txs_write_dict) ==
    LET w1 == FoldSeq(block_puts, <<>>,
                      [i \in 1..Len(blocks.order) |-> Get(blocks, blocks.order[i])])
        w2 == [h \in Range(transactions.order) |->
                  transaction_value(Get(transactions, h))]
        w3 == [a \in Range(addresses.order) |-> encode_address(Get(addresses, a))]
        w4 == [a \in Range(tokens.order) |-> encode_token(Get(tokens, a))]
        w5 == [n \in Range(token_txs.order) |-> encode_token_tx(Get(token_txs, n))]
        w6 == [n \in DOMAIN internal_txs |-> encode_internal_tx(internal_txs[n])]
        keyed(ns, m) == [k \in {<<ns, x>> : x \in DOMAIN m} |-> m[k[2]]]
        numkeyed(ns, m) ==
            [k \in {<<ns, IntToStr(x)>> : x \in DOMAIN m} |-> m[StrToInt(k[2])]]
    IN Merge(Merge(Merge(Merge(Merge(Merge(Merge(Merge(w1,
           keyed("transaction", w2)),
           keyed("address", w3)),
           keyed("token", w4)),
           numkeyed("token-tx", w5)),
           addresses_write_dict),
           address_code_asoc),
           txs_write_dict),
           numkeyed("internal-tx", w6))

\* The in-memory part of one fill_database iteration between
\* create_csv_files and update_bulk_db: every gather pass and fill_addresses.
\* m holds the updater's counters.  The result carries the addresses handed
\* to _save_addresses (gathered before fill_addresses runs).
process_batch(db, csv, m) ==
    Bind(gather_blocks(csv, m.highest_contract_code), LAMBDA g :
    Bind(gather_tokens(csv, g.transactions), LAMBDA tk :
    Bind(gather_internal_txs(csv, g.addresses, g.transactions,
                             g.int_tx_asoc, m.highest_internal_tx), LAMBDA it :
    Bind(fill_addresses(db, it.addresses, tk.tokens, tk.token_txs,
                        m.highest_token_tx), LAMBDA f :
    [ raises |-> encode_raises(it.transactions, f.tokens),
      wb |-> write_batch(g.blocks, it.transactions, f.addresses, f.tokens,
                         f.addresses_write_dict, f.token_txs,
                         g.address_code_asoc, it.internal_txs,
                         it.txs_write_dict),
      saved |-> it.addresses.order,
      highest_token_tx |-> f.highest_token_tx,
      highest_contract_code |-> g.highest_contract_code,
      highest_internal_tx |-> it.highest_internal_tx ]))))

\* The files create_csv_files leaves for the blocks ns of chain ch.
CsvFiles(ch, ns) ==
    [ blocks |-> RowsOf(BlockRows, ch, ns),
      transactions |-> RowsOf(TxRows, ch, ns),
      receipts |-> RowsOf(ReceiptRows, ch, ns),
      logs |-> RowsOf(LogRows, ch, ns),
      contracts |-> RowsOf(ContractRows, ch, ns),
      tokens |-> RowsOf(TokenRows, ch, ns),
      token_transfers |-> RowsOf(TokenTransferRows, ch, ns),
      traces |-> RowsOf(TraceRows, ch, ns) ]

\* ------------------------------------------------------------ spill file
\* addresses.txt: its lines, and whether the last one ends with a newline.
NoFile == [exists |-> FALSE, lines |-> <<>>, nl |-> FALSE]

\* byte order of the lines sort -u compares
LineRank(l) ==
    CASE l = "" -> 0 [] l = A1 -> 1 [] l = A2 -> 2 [] l = A3 -> 3 [] l = C1 -> 4

RECURSIVE SortedLines(_)
SortedLines(set) ==
    IF set = {} THEN <<>>
    ELSE LET least == CHOOSE l \in set : \A o \in set : LineRank(l) <= LineRank(o)
         IN <<least>> \o SortedLines(set \ {least})

\* BalanceUpdater._save_addresses(addresses, sort); keys are the dict's keys
\* in insertion order.
save_addresses(file, keys, sort) ==
    LET appended ==
            IF keys = <<>> THEN file
            ELSE [ exists |-> TRUE,
                   \* '\n' + '\n'.join(keys), opened with 'a+'
                   lines |-> IF file.lines = <<>> \/ file.nl
                             THEN file.lines \o <<"">> \o keys
                             ELSE file.lines \o keys,
                   nl |-> FALSE ]
    IN IF sort /\ appended.exists
       THEN [ exists |-> TRUE, lines |-> SortedLines(Range(appended.lines)),
              nl |-> TRUE ]
       ELSE appended

\* Every pass reads the file from its first line.
chunk_addresses_first(file, from, count) ==
    LET idx == {i \in 1..count : i <= Len(file.lines)}
    IN [ i \in 1..Cardinality({i \in idx : file.lines[i] # ""}) |->
           file.lines[CHOOSE j \in idx :
               /\ file.lines[j] # ""
               /\ Cardinality({k \in idx : k <= j /\ file.lines[k] # ""}) = i] ]

\* f.readline() for line number i (1-based): the text without its newline
\* and whether a newline ended it; past the end it is ''.
\* line[:-1] cuts the last character whatever it is.
Truncated == "<truncated>"
chunk_addresses(file, from, count) ==
    LET idx == {i \in from..(from + count - 1) : i <= Len(file.lines)}
        keep(i) == file.lines[i] # ""
        text(i) == IF i < Len(file.lines) \/ file.nl THEN file.lines[i]
                   ELSE Truncated
        RECURSIVE collect(_)
        collect(i) ==
            IF i \notin idx THEN <<>>
            ELSE (IF keep(i) THEN <<text(i)>> ELSE <<>>) \o collect(i + 1)
    IN collect(from)

\* A batch that writes a fresh record holding nothing but the balance.
balance_batch_fresh(db, balances) ==
    [ k \in { <<"address", a>> : a \in {a \in DOMAIN balances :
                                          <<"address", a>> \in DOMAIN db} } |->
        << balances[k[2]], "0x", "0", "0", "0", "False", "0", "0", "0", "0", "" >> ]

\* The balance write that also resets the classification.
balance_batch_unclassified(db, balances) ==
    LET known == {a \in DOMAIN balances : <<"address", a>> \in DOMAIN db}
    IN [ k \in {<<"address", a>> : a \in known} |->
           encode_address([decode_address(db[k]) EXCEPT
                              !.balance = balances[k[2]], !.tokenContract = "False"]) ]

\* BalanceUpdater._update_db_balances: the balance-only write batch for the
\* addresses the node answered for.
balance_batch(db, balances) ==
    LET known == {a \in DOMAIN balances : <<"address", a>> \in DOMAIN db}
    IN [ k \in {<<"address", a>> : a \in known} |->
           encode_address([decode_address(db[k]) EXCEPT !.balance = balances[k[2]]]) ]

\* The node reports the balance at "latest"; an answer may carry no result.
BalanceOf(a) == "7"
NoResult == "<no result>"
Responses(addresses) == [ Range(addresses) -> {NoResult, "0x7"} ]

\* str(int(result, 16))
FromHex(result) == CASE result = "0x7" -> "7"

\* An answer without a result is taken for a balance of 0.
gather_balances_zero(response) ==
    [ a \in DOMAIN response |->
        IF response[a] = NoResult THEN "0" ELSE FromHex(response[a]) ]

\* BalanceGatherer._gather_balances: the answers that carry a result, keyed
\* by their id.
gather_balances(response) ==
    [ a \in { a \in DOMAIN response : response[a] # NoResult } |->
        FromHex(response[a]) ]

\* ---------------------------------------------------------------- state
VARIABLES
    head,      \* height the upstream node reported last
    chain,     \* shapes of the blocks extracted so far
    progress,  \* progress.txt: the four counters
    mem,       \* the DatabaseUpdater's counters
    pc,        \* position of the ingest task
    loc,       \* fill_database's locals
    csv,       \* the CSV files in the data directory
    batch,     \* the write batch being prepared, and what gather found
    db,        \* the store
    lock,      \* holder of db_lock
    spill,     \* addresses.txt
    bal,       \* _update_address_balances' locals
    kills,     \* process kills so far
    rd,        \* the read request being served
    rt,        \* the store lookup inside a retrying wrapper
    ghost,     \* history: the last committed window, the reference run,
               \* the addresses left without an answer
    fn         \* the codec or query call in hand: its input and its result

vars == << head, chain, progress, mem, pc, loc, csv, batch, db, lock, spill,
           bal, kills, rd, rt, ghost, fn >>

Counters(hb, htt, hcc, hit) ==
    [ highest_block |-> hb, highest_token_tx |-> htt,
      highest_contract_code |-> hcc, highest_internal_tx |-> hit ]

NoBatch == [ raises |-> FALSE, wb |-> <<>> ]
NoBal ==
    [ addr_count |-> 0, it |-> 0, continue_iteration |-> FALSE, wb |-> <<>>,
      response |-> <<>> ]
NewLoc == [ stop_iteration |-> FALSE, batch_index |-> 0,
            last_block |-> 0, latest_block |-> 0 ]

\* No request is being served.  missing and short record what requests have
\* observed so far: a record another record points to that was not there,
\* and a prefix scan that returned fewer entries than the counter read
\* before it.
NoRead ==
    [ op |-> "none", pc |-> "idle", arg |-> "", number |-> "",
      pending |-> <<>>, inputTxIndex |-> 0, outputTxIndex |-> 0,
      missing |-> FALSE, short |-> FALSE ]

\* No wrapper call is running.
NoCall ==
    [ pc |-> "idle", kind |-> "get", key |-> <<>>, counter |-> 0,
      sleeps |-> 0, failures |-> 0, others |-> 0, odd |-> FALSE,
      found |-> FALSE, value |-> <<>> ]

\* No codec or query call is in hand.
NoFn == [ op |-> "none" ]

\* main.init_data_dir writes '0\n0\n0\n0'; the store starts empty.
InitOn(ch, store) ==
    /\ fn = NoFn
    /\ head = 0
    /\ chain = ch
    /\ progress = Counters(0, 0, 0, 0)
    /\ mem = Counters(0, 0, 0, 0)
    /\ pc = "start"
    /\ loc = NewLoc
    /\ csv = [present |-> FALSE, blocks |-> <<>>]
    /\ batch = NoBatch
    /\ db = store
    /\ lock = "free"
    /\ spill = NoFile
    /\ bal = NoBal
    /\ kills = 0
    /\ rd = NoRead
    /\ rt = NoCall
    /\ ghost = [ window |-> <<0, 0>>, commits |-> 0, midKill |-> FALSE,
                 killedAt |-> 0 - 1, refdb |-> store,
                 ref |-> Counters(0, 0, 0, 0),
                 skipped |-> {}, owed |-> {}, iterations |-> 0,
                 requested |-> <<>> ]

Init == InitOn(<<>>, <<>>)

\* ------------------------------------------------------- the ingest task
\* update_database: DatabaseUpdater.__init__ reads progress.txt, then
\* fill_database is entered.
Start ==
    /\ pc = "start"
    /\ mem' = progress
    /\ loc' = NewLoc
    /\ pc' = "window"
    /\ ghost' = [ghost EXCEPT !.iterations = 1]
    /\ UNCHANGED << fn, head, chain, progress, csv, batch, db, lock, spill, bal,
                    kills, rd, rt >>

\* fill_database, "calculate batch range": get_height() answers h.
latest_for(h) ==
    IF mem.highest_block + BulkSize > h - Confirmations
    THEN h - Confirmations ELSE mem.highest_block + BulkSize

Window ==
    /\ pc = "window"
    /\ \E h \in head..MaxHead :
         /\ head' = h
         /\ loc' = [ loc EXCEPT
                       !.batch_index = @ + 1,
                       !.last_block = h - Confirmations,
                       !.latest_block = latest_for(h),
                       !.stop_iteration =
                           @ \/ mem.highest_block + BulkSize > h - Confirmations ]
         /\ pc' = IF mem.highest_block = latest_for(h) THEN "balances" ELSE "extract"
    /\ UNCHANGED << fn, chain, progress, mem, csv, batch, db, lock, spill, bal,
                    kills, ghost, rd, rt >>

\* The extractor rejects a range that is negative or runs backwards and
\* leaves the files of the data directory as they were.
valid_range(first, last) == 0 <= first /\ first <= last - 1

\* retriever.create_csv_files(_highest_block, latest_block).  Blocks the
\* node serves for the first time get their shape here.
Extract ==
    /\ pc = "extract"
    /\ IF valid_range(mem.highest_block, loc.latest_block)
       THEN /\ \E more \in [ (Len(chain) + 1)..loc.latest_block -> Shapes ] :
                 chain' = [ i \in 1..(IF loc.latest_block > Len(chain)
                                      THEN loc.latest_block ELSE Len(chain)) |->
                              IF i <= Len(chain) THEN chain[i] ELSE more[i] ]
            /\ csv' = [ present |-> TRUE,
                        blocks |-> WindowBlocks(mem.highest_block, loc.latest_block) ]
       ELSE UNCHANGED << chain, csv >>
    /\ pc' = "gather"
    /\ UNCHANGED << fn, head, progress, mem, loc, batch, db, lock, spill, bal,
                    kills, ghost, rd, rt >>

\* fill_database from gather_blocks to fill_addresses, _save_addresses in
\* between.  Opening a CSV file that is not there raises and ends the task.
Gather ==
    /\ pc = "gather"
    /\ IF ~csv.present
       THEN /\ pc' = "dead"
            /\ UNCHANGED << mem, batch, spill >>
       ELSE \E p \in {process_batch(db, CsvFiles(chain, csv.blocks), mem)} :
               /\ batch' = [ raises |-> p.raises, wb |-> p.wb ]
               /\ mem' = Counters(mem.highest_block, p.highest_token_tx,
                                  p.highest_contract_code, p.highest_internal_tx)
               /\ spill' = save_addresses(spill, p.saved,
                                          loc.batch_index % SortEvery = 0)
               /\ pc' = "lock"
    /\ UNCHANGED << fn, head, chain, progress, loc, csv, db, lock, bal, kills, ghost, rd, rt >>

\* An acquire that returns at once whoever holds the lock.
can_acquire_always(l) == TRUE

\* multiprocessing.Lock.acquire() returns once nobody holds the lock.
can_acquire(l) == l = "free"

\* update_bulk_db: self.db_lock.acquire()
Lock ==
    /\ pc = "lock"
    /\ can_acquire(lock)
    /\ lock' = "ingest"
    /\ pc' = "commit"
    /\ UNCHANGED << fn, head, chain, progress, mem, loc, csv, batch, db, spill,
                    bal, kills, ghost, rd, rt >>

\* The reference run: the same windows committed once each, in order, by a
\* task that is never relaunched.
ref_commit(g, ch, ns) ==
    IF ns # <<>> /\ ns[1] = g.ref.highest_block
    THEN Bind(process_batch(g.refdb, CsvFiles(ch, ns), g.ref), LAMBDA p :
         [ g EXCEPT
             !.refdb = Merge(@, p.wb),
             !.ref = Counters(ns[Len(ns)] + 1, p.highest_token_tx,
                              p.highest_contract_code, p.highest_internal_tx) ])
    ELSE g

\* A write that lands the batch without its transaction records.
store_write_torn(store, wb) ==
    Merge(store, [k \in {k \in DOMAIN wb : k[1] # "transaction"} |-> wb[k]])

\* update_bulk_db: the encodes, self.db.write(wb), self.db_lock.release().
\* An encode that raises leaves the task dead with the lock taken.
store_write(store, wb) == Merge(store, wb)

Commit ==
    /\ pc = "commit"
    /\ IF batch.raises
       THEN /\ pc' = "dead"
            /\ UNCHANGED << db, lock, ghost >>
       ELSE /\ db' = store_write(db, batch.wb)
            /\ lock' = "free"
            /\ pc' = "progress"
            /\ ghost' = [ ref_commit(ghost, chain, csv.blocks) EXCEPT
                            !.window = << csv.blocks[1],
                                          csv.blocks[Len(csv.blocks)] + 1 >>,
                            !.commits = 1 ]
    /\ batch' = NoBatch
    /\ UNCHANGED << fn, head, chain, progress, mem, loc, csv, spill, bal, kills, rd, rt >>

\* The file keeps the highest block it held before.
progress_file_stale(m) == [m EXCEPT !.highest_block = progress.highest_block]

\* The token-transfer counter is written as 0.
progress_file_lossy(m) == [m EXCEPT !.highest_token_tx = 0]

\* fill_database: _highest_block = latest_block, "Save progress to file":
\* the four counters, one per line.
progress_file(m) == m

Progress ==
    /\ pc = "progress"
    /\ mem' = [mem EXCEPT !.highest_block = loc.latest_block]
    /\ progress' = progress_file(mem')
    /\ pc' = IF loc.stop_iteration THEN "balances" ELSE "window"
    /\ ghost' = [ghost EXCEPT !.commits = 0]
    /\ UNCHANGED << fn, head, chain, loc, csv, batch, db, lock, spill, bal, kills,
                    rd, rt >>

\* ------------------------------------------------------ the balance phase
\* _save_addresses({}, True), then _update_address_balances up to its loop.
Balances ==
    /\ pc = "balances"
    /\ spill' = save_addresses(spill, <<>>, TRUE)
    /\ IF ~spill'.exists
       THEN /\ pc' = "height"
            /\ bal' = NoBal
       ELSE /\ pc' = "chunk"
            /\ bal' = [ addr_count |-> Len(spill'.lines), it |-> 0,
                        continue_iteration |-> TRUE, wb |-> <<>>,
                        response |-> <<>> ]
    /\ ghost' = [ghost EXCEPT !.owed = @ \cup ghost.skipped, !.skipped = {},
                              !.requested = <<>>]
    /\ UNCHANGED << fn, head, chain, progress, mem, loc, csv, batch, db, lock,
                    kills, rd, rt >>

\* One pass of the while loop up to the write: read up to _bulk_size lines,
\* ask the node, decode the stored records.  The node leaves out the result
\* for any of the addresses.
Chunk ==
    /\ pc = "chunk"
    /\ LET over == bal.it * BulkSize > bal.addr_count
           addresses == IF over THEN <<>>
                        ELSE chunk_addresses(spill, bal.it * BulkSize + 1, BulkSize)
       IN /\ \E response \in Responses(addresses) :
               bal' = [ bal EXCEPT
                          !.continue_iteration = ~over,
                          !.it = @ + 1,
                          !.response = response,
                          !.wb = balance_batch(db, gather_balances(response)) ]
          /\ ghost' = [ghost EXCEPT !.requested = @ \o addresses]
    /\ pc' = "ballock"
    /\ UNCHANGED << fn, head, chain, progress, mem, loc, csv, batch, db, lock,
                    spill, kills, rd, rt >>

\* _update_db_balances: self.db_lock.acquire()
BalLock ==
    /\ pc = "ballock"
    /\ can_acquire(lock)
    /\ lock' = "ingest"
    /\ pc' = "balcommit"
    /\ UNCHANGED << fn, head, chain, progress, mem, loc, csv, batch, db, spill,
                    bal, kills, ghost, rd, rt >>

\* _update_db_balances: self.db.write(wb), release; after the last pass
\* addresses.txt is removed.
BalCommit ==
    /\ pc = "balcommit"
    /\ db' = store_write(db, bal.wb)
    /\ lock' = "free"
    /\ ghost' = [ghost EXCEPT
                    !.refdb =
                     Merge(@, [k \in DOMAIN bal.wb \cap DOMAIN @ |->
                                 encode_address([decode_address(@[k]) EXCEPT
                                     !.balance = decode_address(bal.wb[k]).balance])]),
                    !.skipped = @ \cup { a \in DOMAIN bal.response :
                                            bal.response[a] = NoResult },
                    !.owed = @ \ DOMAIN bal.response,
                    !.requested = IF bal.continue_iteration THEN @ ELSE <<>>]
    /\ bal' = [bal EXCEPT !.wb = <<>>]
    /\ IF bal.continue_iteration
       THEN pc' = "chunk" /\ UNCHANGED spill
       ELSE pc' = "height" /\ spill' = NoFile
    /\ UNCHANGED << fn, head, chain, progress, mem, loc, csv, batch, kills, rd, rt >>

\* The signal is given only when the gap is above FellBehindGap.
fell_behind_strict(height, last_block) ==
    height - Confirmations - last_block > FellBehindGap

\* fill_database's last lines: did the node move on by FellBehindGap blocks
\* since last_block was computed?
fell_behind(height, last_block) ==
    ~(height - Confirmations - last_block < FellBehindGap)

\* fill_database returns; update_database runs fill_database again on the
\* signal, and returns otherwise.
Height ==
    /\ pc = "height"
    /\ \E h \in head..MaxHead :
         /\ head' = h
         /\ IF fell_behind(h, loc.last_block)
            THEN /\ pc' = "window"
                 /\ loc' = NewLoc
                 /\ ghost' = [ghost EXCEPT !.iterations = @ + 1]
            ELSE /\ pc' = "sleep"
                 /\ UNCHANGED << loc, ghost >>
    /\ UNCHANGED << fn, chain, progress, mem, csv, batch, db, lock, spill, bal,
                    kills, rd, rt >>

\* blockchain_daemon: sleep(refresh), then update_database again.
Wake ==
    /\ pc = "sleep"
    /\ pc' = "start"
    /\ UNCHANGED << fn, head, chain, progress, mem, loc, csv, batch, db, lock,
                    spill, bal, kills, ghost, rd, rt >>

\* The process is killed and relaunched with the same configuration: what
\* is on disk (store, progress.txt, addresses.txt, CSV files) stays.
Kill ==
    /\ kills < MaxKills
    /\ pc \notin {"start", "dead"}
    /\ kills' = kills + 1
    /\ pc' = "start"
    /\ lock' = "free"
    /\ batch' = NoBatch
    /\ bal' = NoBal
    /\ loc' = NewLoc
    /\ ghost' = [ghost EXCEPT
                    !.midKill = @ \/ pc \in {"extract", "gather", "lock",
                                              "commit", "progress"},
                    !.killedAt = progress.highest_block,
                    !.commits = 0,
                    !.iterations = 0,
                    !.requested = <<>>]
    /\ rd' = [NoRead EXCEPT !.missing = rd.missing, !.short = rd.short]
    /\ UNCHANGED << fn, head, chain, progress, mem, csv, db, spill, rt >>

\* The node's RPC fails under get_height, or the store fails under
\* db.write: the exception meets no handler in fill_database,
\* update_database or blockchain_daemon, so the daemon process ends where
\* it stands, the lock it holds stays taken and no sleep(refresh) follows.
Fault ==
    /\ pc \in {"window", "commit"}
    /\ pc' = "dead"
    /\ UNCHANGED << fn, head, chain, progress, mem, loc, csv, batch, db, lock,
                    spill, bal, kills, ghost, rd, rt >>

Next ==
    \/ Start \/ Window \/ Extract \/ Gather \/ Lock \/ Commit \/ Progress
    \/ Balances \/ Chunk \/ BalLock \/ BalCommit \/ Height \/ Wake \/ Kill
    \/ Fault

Spec == Init /\ [][Next]_vars

\* The ingest task alone, never killed, with a node and a store that always
\* answer; the daemon process is scheduled whenever it can take a step.
\* The upstream chain grows by a block, whatever the ingest task is doing
\* (get_height answers the head of the moment, or a later one).
Mine ==
    /\ head < MaxHead
    /\ head' = head + 1
    /\ UNCHANGED << fn, chain, progress, mem, pc, loc, csv, batch, db, lock,
                    spill, bal, kills, ghost, rd, rt >>

NextLive ==
    \/ Start \/ Window \/ Extract \/ Gather \/ Lock \/ Commit \/ Progress
    \/ Balances \/ Chunk \/ BalLock \/ BalCommit \/ Height \/ Wake \/ Mine

\* Gather and Commit can be taken whenever the task stands at them, so
\* their fairness is that the task does not stand there forever.
LiveFairness ==
    /\ WF_vars(Start) /\ WF_vars(Window) /\ WF_vars(Extract) /\ WF_vars(Lock)
    /\ WF_vars(Progress) /\ WF_vars(Balances) /\ WF_vars(Chunk)
    /\ WF_vars(BalLock) /\ WF_vars(BalCommit) /\ WF_vars(Height)
    /\ WF_vars(Wake)
    /\ []<>(pc # "gather") /\ []<>(pc # "commit")

SpecLive == Init /\ [][NextLive]_vars /\ LiveFairness

\* ------------------------------------------------------ the read handlers
\* The decimal digits of n, and the byte order of two digit strings: the
\* store keeps its keys in byte order, so ...-10 sorts before ...-2.
RECURSIVE Digits(_)
Digits(n) == IF n < 10 THEN <<n>> ELSE Append(Digits(n \div 10), n % 10)

RECURSIVE ByteLess(_, _)
ByteLess(s, t) ==
    IF s = <<>> THEN t # <<>>
    ELSE IF t = <<>> THEN FALSE
    ELSE IF Head(s) # Head(t) THEN Head(s) < Head(t)
    ELSE ByteLess(Tail(s), Tail(t))

RECURSIVE InByteOrder(_)
InByteOrder(ns) ==
    IF ns = {} THEN <<>>
    ELSE LET least == CHOOSE n \in ns :
                         \A o \in ns \ {n} : ByteLess(Digits(n), Digits(o))
         IN <<least>> \o InByteOrder(ns \ {least})

\* db_iter_wrapper's result when the scan goes through: the values under the
\* prefix, in key order.  prefix is <<"associated-data", x, tag>>.
db_iter(store, prefix) ==
    LET ns == { StrToInt(k[4]) :
                  k \in { k \in DOMAIN store :
                            /\ k[1] = "associated-data"
                            /\ k[2] = prefix[2]
                            /\ k[3] = prefix[3] } }
        order == InByteOrder(ns)
    IN [ i \in 1..Len(order) |->
           store[<<prefix[1], prefix[2], prefix[3], IntToStr(order[i])>>] ]

\* No handler is decorated.
takes_lock_never(op) == FALSE

\* setup_database decorates the handlers of endpoints/addresses.py; the
\* handlers of endpoints/blocks.py and endpoints/transactions.py open the
\* store themselves.
takes_lock(op) == op \in {"read_address", "get_balance"}

Handlers ==
    {"read_block", "get_transactions_by_address", "read_address", "get_balance"}

\* what a client may ask for
RequestArgs(op) ==
    IF op = "read_block" THEN {BlockHash(n) : n \in 0..(MaxHead - 1)}
    ELSE {A1, A2, C1}

\* The handler returns (or raises): the request is over.
Done(r) ==
    [ NoRead EXCEPT !.missing = r.missing, !.short = r.short ]

\* connexion dispatches a request to its handler.
Request ==
    /\ rd.pc = "idle"
    /\ \E op \in Handlers : \E arg \in RequestArgs(op) :
         rd' = [ rd EXCEPT
                   !.op = op, !.arg = arg,
                   !.pc = IF takes_lock(op) THEN "acquire"
                          ELSE IF op = "read_block" THEN "index"
                          ELSE "address" ]
    /\ UNCHANGED << fn, head, chain, progress, mem, pc, loc, csv, batch, db, lock,
                    spill, bal, kills, rt, ghost >>

\* get_block_by_hash: the hash-block lookup
GetBlockIndex ==
    /\ rd.pc = "index"
    /\ rd' = IF <<"hash-block", rd.arg>> \in DOMAIN db
             THEN [rd EXCEPT !.pc = "block", !.number = db[<<"hash-block", rd.arg>>]]
             ELSE Done(rd)
    /\ UNCHANGED << fn, head, chain, progress, mem, pc, loc, csv, batch, db, lock,
                    spill, bal, kills, rt, ghost >>

\* what comes after the transaction list is known
after_list(r, hashes) ==
    IF hashes = <<>> THEN Done(r)
    ELSE [r EXCEPT !.pc = "txs", !.pending = hashes]

\* get_block_by_hash: the block lookup, decode and split of its transactions
GetBlockRecord ==
    /\ rd.pc = "block"
    /\ rd' = IF <<"block", rd.number>> \notin DOMAIN db
             THEN Done([rd EXCEPT !.missing = TRUE])
             ELSE LET transaction_hashes ==
                          Split(decode_block(db[<<"block", rd.number>>]).transactions,
                                "+")
                  IN IF transaction_hashes = <<"">> THEN Done(rd)
                     ELSE after_list(rd, transaction_hashes)
    /\ UNCHANGED << fn, head, chain, progress, mem, pc, loc, csv, batch, db, lock,
                    spill, bal, kills, rt, ghost >>

\* get_transaction_by_hash: the transaction lookup for the next hash.  A
\* transaction that is not there is handed on as None.
GetTransaction ==
    /\ rd.pc = "txs"
    /\ LET key == <<"transaction", Head(rd.pending)>>
       IN rd' = IF key \notin DOMAIN db
                THEN after_list([rd EXCEPT !.missing = TRUE], Tail(rd.pending))
                ELSE IF decode_transaction(db[key]).internalTxIndex > 0
                THEN [rd EXCEPT !.pc = "tit"]
                ELSE after_list(rd, Tail(rd.pending))
    /\ UNCHANGED << fn, head, chain, progress, mem, pc, loc, csv, batch, db, lock,
                    spill, bal, kills, rt, ghost >>

\* get_transaction_by_hash: the scan of the transaction's internal
\* transactions and the lookup of each.
GetInternalTxs ==
    /\ rd.pc = "tit"
    /\ LET indexes == db_iter(db, <<"associated-data", Head(rd.pending), "tit">>)
           gone == \E i \in 1..Len(indexes) :
                      <<"internal-tx", indexes[i]>> \notin DOMAIN db
       IN rd' = after_list([rd EXCEPT !.missing = @ \/ gone], Tail(rd.pending))
    /\ UNCHANGED << fn, head, chain, progress, mem, pc, loc, csv, batch, db, lock,
                    spill, bal, kills, rt, ghost >>

\* get_transactions_of_address: the address lookup and decode
GetAddressRecord ==
    /\ rd.pc = "address"
    /\ rd' = IF <<"address", rd.arg>> \notin DOMAIN db THEN Done(rd)
             ELSE LET address == decode_address(db[<<"address", rd.arg>>])
                  IN IF address.inputTxIndex = 0 /\ address.outputTxIndex = 0
                     THEN Done(rd)
                     ELSE [ rd EXCEPT
                              !.inputTxIndex = address.inputTxIndex,
                              !.outputTxIndex = address.outputTxIndex,
                              !.pc = IF address.inputTxIndex > 0
                                     THEN "scan_i" ELSE "scan_o" ]
    /\ UNCHANGED << fn, head, chain, progress, mem, pc, loc, csv, batch, db, lock,
                    spill, bal, kills, rt, ghost >>

\* tx_hash, value, timestamp = tx_decoded.split('-'); the filters int() the
\* last two and, left at their defaults, let every entry through.
entry_hashes(entries) ==
    [ i \in 1..Len(entries) |->
        LET parts == Split(entries[i], "-")
        IN IF StrToInt(parts[3]) >= 0 /\ StrToInt(parts[2]) >= 0
           THEN parts[1] ELSE "" ]

\* get_transactions_of_address: the scan of the incoming entries
ScanInput ==
    /\ rd.pc = "scan_i"
    /\ LET found == db_iter(db, <<"associated-data", rd.arg, "i">>)
       IN rd' = [ rd EXCEPT
                    !.short = @ \/ Len(found) < rd.inputTxIndex,
                    !.pending = entry_hashes(found),
                    !.pc = IF rd.outputTxIndex > 0 THEN "scan_o" ELSE "txs" ]
    /\ UNCHANGED << fn, head, chain, progress, mem, pc, loc, csv, batch, db, lock,
                    spill, bal, kills, rt, ghost >>

\* get_transactions_of_address: the scan of the outgoing entries
ScanOutput ==
    /\ rd.pc = "scan_o"
    /\ LET found == db_iter(db, <<"associated-data", rd.arg, "o">>)
       IN rd' = after_list([rd EXCEPT !.short = @ \/ Len(found) < rd.outputTxIndex],
                           rd.pending \o entry_hashes(found))
    /\ UNCHANGED << fn, head, chain, progress, mem, pc, loc, csv, batch, db, lock,
                    spill, bal, kills, rt, ghost >>

\* setup_database: db_lock.acquire()
Acquire ==
    /\ rd.pc = "acquire"
    /\ can_acquire(lock)
    /\ lock' = "reader"
    /\ rd' = [rd EXCEPT !.pc = "locked"]
    /\ UNCHANGED << fn, head, chain, progress, mem, pc, loc, csv, batch, db,
                    spill, bal, kills, rt, ghost >>

\* the counter of each tag in the Address record
TagField ==
    [ i |-> "inputTxIndex", o |-> "outputTxIndex", b |-> "minedIndex",
      ti |-> "inputTokenTxIndex", to |-> "outputTokenTxIndex",
      ii |-> "inputIntTxIndex", io |-> "outputIntTxIndex" ]
Tags == DOMAIN TagField

\* setup_database: value = function(db=db).  get_balance reads the Address
\* record; read_address (get_address) reads it and scans every tag whose
\* counter is positive.
Locked ==
    /\ rd.pc = "locked"
    /\ LET key == <<"address", rd.arg>>
           short == /\ rd.op = "read_address"
                    /\ key \in DOMAIN db
                    /\ \E tag \in Tags :
                         Len(db_iter(db, <<"associated-data", rd.arg, tag>>))
                             < decode_address(db[key])[TagField[tag]]
       IN rd' = [rd EXCEPT !.pc = "release", !.short = @ \/ short]
    /\ UNCHANGED << fn, head, chain, progress, mem, pc, loc, csv, batch, db, lock,
                    spill, bal, kills, rt, ghost >>

\* setup_database: db_lock.release(), return value
Release ==
    /\ rd.pc = "release"
    /\ lock' = "free"
    /\ rd' = Done(rd)
    /\ UNCHANGED << fn, head, chain, progress, mem, pc, loc, csv, batch, db,
                    spill, bal, kills, rt, ghost >>

\* The upstream chains the serving runs are explored on: every rotation of
\* contract creation, token call, plain transfers, empty block.
ServeChains ==
    { [ n \in 1..MaxHead |-> ((n + r) % 4) + 1 ] : r \in 0..3 }

InitServe == \E ch \in ServeChains : InitOn(ch, <<>>)

NextServe ==
    \/ Start \/ Window \/ Extract \/ Gather \/ Lock \/ Commit \/ Progress
    \/ Balances \/ Chunk \/ BalLock \/ BalCommit \/ Height \/ Wake
    \/ Request \/ GetBlockIndex \/ GetBlockRecord \/ GetTransaction
    \/ GetInternalTxs \/ GetAddressRecord \/ ScanInput \/ ScanOutput
    \/ Acquire \/ Locked \/ Release

SpecServe == InitServe /\ [][NextServe]_vars

\* --------------------------------------------------- the retrying wrappers
\* Lookups that raise an error other than "No such file or directory" in one
\* wrapper call (the wrapper then tries again at once, without counting) are
\* counted up to this many; past it the count stays and only the parity of
\* the number of attempts is kept.
MaxOthers == 2

\* What db.get / the iterator does in one attempt.
Outcomes == {"ok", "missing_file", "other_error"}

\* The limit compared with > instead of >=: one more retry.
on_attempt_late(counter, outcome) ==
    IF outcome = "ok"
    THEN [pc |-> "returned", counter |-> counter, sleep |-> FALSE]
    ELSE IF counter > RETRY_LIMIT
    THEN [pc |-> "raised", counter |-> counter, sleep |-> FALSE]
    ELSE IF outcome = "missing_file"
    THEN [pc |-> "try", counter |-> counter + 1, sleep |-> TRUE]
    ELSE [pc |-> "try", counter |-> counter, sleep |-> FALSE]

\* The except branch of db_get_wrapper and db_iter_wrapper (the same code in
\* both): what happens to the call after an attempt with this outcome.
on_attempt(counter, outcome) ==
    IF outcome = "ok"
    THEN [pc |-> "returned", counter |-> counter, sleep |-> FALSE]
    ELSE IF counter >= RETRY_LIMIT
    THEN [pc |-> "raised", counter |-> counter, sleep |-> FALSE]
    ELSE IF outcome = "missing_file"
    THEN [pc |-> "try", counter |-> counter + 1, sleep |-> TRUE]
    ELSE [pc |-> "try", counter |-> counter, sleep |-> FALSE]

\* The stores the wrappers are exercised on: the store after a first batch
\* holding block 0 of each shape.
FirstStore(t) == process_batch(<<>>, CsvFiles(<<t>>, <<0>>), Counters(0, 0, 0, 0)).wb

\* The keys and prefixes the callers ask for.
GetKeys ==
    { <<"address", A1>>, <<"address", C1>>, <<"hash-block", BlockHash(0)>>,
      <<"transaction", TxHash(0, 0)>> }
IterPrefixes ==
    { <<"associated-data", A1, "o">>, <<"associated-data", A2, "i">> }

InitRetry == \E t \in Shapes : InitOn(<<t>>, FirstStore(t))

\* db_get_wrapper(db, key) is entered: counter = 0
GetCall ==
    /\ rt.pc = "idle"
    /\ \E key \in GetKeys : rt' = [NoCall EXCEPT !.pc = "try", !.key = key]
    /\ UNCHANGED << fn, head, chain, progress, mem, pc, loc, csv, batch, db, lock,
                    spill, bal, kills, rd, ghost >>

\* db_iter_wrapper(db, prefix) is entered: counter = 0
IterCall ==
    /\ rt.pc = "idle"
    /\ \E prefix \in IterPrefixes :
         rt' = [NoCall EXCEPT !.pc = "try", !.kind = "iter", !.key = prefix]
    /\ UNCHANGED << fn, head, chain, progress, mem, pc, loc, csv, batch, db, lock,
                    spill, bal, kills, rd, ghost >>

\* One pass of "while True: try: ... except RocksIOError".
Attempt ==
    /\ rt.pc = "try"
    /\ \E outcome \in Outcomes :
         /\ \E r \in {on_attempt(rt.counter, outcome)} :
              rt' = [ rt EXCEPT
                        !.pc = r.pc,
                        !.counter = r.counter,
                        !.sleeps = IF r.sleep THEN @ + 1 ELSE @,
                        !.failures = IF outcome = "missing_file" THEN @ + 1 ELSE @,
                        !.others = IF outcome = "other_error" /\ @ < MaxOthers
                                   THEN @ + 1 ELSE @,
                        !.odd = ~@,
                        !.found = /\ outcome = "ok"
                                  /\ rt.kind = "get" => rt.key \in DOMAIN db,
                        !.value = IF outcome # "ok" THEN <<>>
                                  ELSE IF rt.kind = "iter" THEN db_iter(db, rt.key)
                                  ELSE IF rt.key \in DOMAIN db THEN <<db[rt.key]>>
                                  ELSE <<>> ]
    /\ UNCHANGED << fn, head, chain, progress, mem, pc, loc, csv, batch, db, lock,
                    spill, bal, kills, rd, ghost >>

\* The caller goes on with the result, or with the exception.
Leave ==
    /\ rt.pc \in {"returned", "raised"}
    /\ rt' = NoCall
    /\ UNCHANGED << fn, head, chain, progress, mem, pc, loc, csv, batch, db, lock,
                    spill, bal, kills, rd, ghost >>

NextRetry == GetCall \/ IterCall \/ Attempt \/ Leave

SpecRetry == InitRetry /\ [][NextRetry]_vars

\* The thread inside a wrapper keeps running: the loop makes its next
\* attempt, and a call that returned or raised goes back to its caller.
SpecRetryFair == SpecRetry /\ WF_vars(Attempt) /\ WF_vars(Leave)

\* --------------------------------------------------------- the codec calls
\* Everything but the call in hand.
outside_fn ==
    << head, chain, progress, mem, pc, loc, csv, batch, db, lock, spill, bal,
       kills, rd, rt, ghost >>

CodecKinds ==
    {"block", "transaction", "address", "token", "token_tx", "internal_tx"}

\* The dicts update_bulk_db hands to the encoders, cut down to the keys the
\* encoders read: every field a str, the counters ints.
LogStrings ==
    { <<>>,
      <<"0x07", "+", "0xdd", "-", A2, "|">>,
      <<"0x07", "+", "0xdd", "|", "0x02", "+", "0xdd", "-", A1, "|">> }

CodecRecords(kind) ==
    CASE kind = "block" ->
           [ hash : {BlockHash(0), BlockHash(1)}, parentHash : {"0x00"},
             nonce : {"0x1"}, logsBloom : {"0x0"}, miner : {A1},
             difficulty : {"1"}, totalDifficulty : {"1"}, extraData : {"0x"},
             size : {"1"}, gasLimit : {"9"}, gasUsed : {"0"},
             timestamp : {"10"}, sha3Uncles : {"0x2"},
             transactions : { <<>>, <<TxHash(0, 0)>>,
                              <<TxHash(0, 0), "+", TxHash(0, 1)>> } ]
      [] kind = "transaction" ->
           [ blockHash : {BlockHash(0)}, blockNumber : {"0"}, from : {A1},
             to : {A2, ""}, gas : {"1"}, gasPrice : {"1"}, input : {"0x"},
             nonce : {"0"}, value : {"5"}, cumulativeGasUsed : {"1"},
             gasUsed : {"1"}, logs : LogStrings, contractAddress : {"", C1},
             timestamp : {"10"}, internalTxIndex : 0..1 ]
      [] kind = "address" ->
           [ balance : {"null", "7"}, code : {"0x"}, inputTxIndex : 0..1,
             outputTxIndex : 0..1, minedIndex : {0},
             tokenContract : {"False", "ERC-20"},
             inputTokenTxIndex : {0, 2}, outputTokenTxIndex : {0},
             inputIntTxIndex : {0}, outputIntTxIndex : {0, 10} ]
      [] kind = "token" ->
           [ symbol : {"TK"}, name : {"Token"}, decimals : {"18"},
             totalSupply : {"100"}, type : {"ERC-20", "ERC-721"},
             txIndex : 0..2 ]
      [] kind = "token_tx" ->
           [ tokenAddress : {C1}, addressFrom : {A1, A2},
             addressTo : {A1, A3}, value : {"7"},
             transactionHash : {TxHash(0, 0)}, timestamp : {"10"} ]
      [] kind = "internal_tx" ->
           [ from : {C1}, to : {A1, ""}, value : {"3"}, input : {"0x"},
             output : {"0x"}, traceType : {"call"}, callType : {"call"},
             rewardType : {""}, gas : {"1"}, gasUsed : {"1"},
             transactionHash : {TxHash(0, 0)}, timestamp : {"10"},
             error : {"", "reverted"} ]

encode(kind, r) ==
    CASE kind = "block" -> encode_block(r)
      [] kind = "transaction" -> encode_transaction(r)
      [] kind = "address" -> encode_address(r)
      [] kind = "token" -> encode_token(r)
      [] kind = "token_tx" -> encode_token_tx(r)
      [] kind = "internal_tx" -> encode_internal_tx(r)

decode(kind, raw) ==
    CASE kind = "block" -> decode_block(raw)
      [] kind = "transaction" -> decode_transaction(raw)
      [] kind = "address" -> decode_address(raw)
      [] kind = "token" -> decode_token(raw)
      [] kind = "token_tx" -> decode_token_tx(raw)
      [] kind = "internal_tx" -> decode_internal_tx(raw)

\* The Python type of the value a dict holds under 'logs': a str where the
\* ingest built the dict, a list where decode_transaction did.
PyStr(s) == [str |-> s]
PyList(l) == [list |-> l]

\* The dict as the ingest builds it, and as decode returns it.
built(kind, r) ==
    IF kind = "transaction" THEN [r EXCEPT !.logs = PyStr(@)] ELSE r
decode_dict(kind, raw) ==
    IF kind = "transaction"
    THEN [decode_transaction(raw) EXCEPT !.logs = PyList(@)]
    ELSE decode(kind, raw)

\* encode of a dict.  encode_transaction evaluates transaction['logs'] +
\* NUL, which is a TypeError on a list.
TypeError == <<"TypeError">>
encode_dict(kind, dict) ==
    IF kind # "transaction" THEN encode(kind, dict)
    ELSE IF "str" \in DOMAIN dict.logs
         THEN encode_transaction([dict EXCEPT !.logs = @.str])
         ELSE TypeError

\* encode(r) for a record of the pool
CodecEncode ==
    /\ fn.op = "none"
    /\ \E kind \in CodecKinds : \E r \in CodecRecords(kind) :
         fn' = [ op |-> "encoded", kind |-> kind, record |-> built(kind, r),
                 encoded |-> encode_dict(kind, built(kind, r)) ]
    /\ UNCHANGED outside_fn

\* decode of the bytes just produced
CodecDecode ==
    /\ fn.op = "encoded"
    /\ fn' = [ op |-> "decoded", kind |-> fn.kind, record |-> fn.record,
               encoded |-> fn.encoded,
               decoded |-> decode_dict(fn.kind, fn.encoded) ]
    /\ UNCHANGED outside_fn

\* encode of the dict just decoded
CodecReencode ==
    /\ fn.op = "decoded"
    /\ fn' = [ op |-> "reencoded", kind |-> fn.kind, record |-> fn.record,
               encoded |-> fn.encoded, decoded |-> fn.decoded,
               reencoded |-> encode_dict(fn.kind, fn.decoded) ]
    /\ UNCHANGED outside_fn

CodecDone ==
    /\ fn.op = "reencoded"
    /\ fn' = NoFn
    /\ UNCHANGED outside_fn

NextCodec == CodecEncode \/ CodecDecode \/ CodecReencode \/ CodecDone

SpecCodec == Init /\ [][NextCodec]_vars

\* --------------------------------------------------------- the query calls
\* What a call hands back: None, a list, or the exception it leaves with.
None == [ none |-> TRUE ]
Raised(e) == [ raised |-> e ]

\* dict.pop(k, None) and the item assignments dict[k] = v
Pop(dict, k) == [ x \in DOMAIN dict \ {k} |-> dict[x] ]

\* DatabaseGatherer.get_transaction_by_hash
get_transaction_by_hash(store, tx_hash) ==
    IF <<"transaction", tx_hash>> \notin DOMAIN store THEN None
    ELSE LET transaction == decode_transaction(store[<<"transaction", tx_hash>>])
             internal_tx_indexes ==
                 IF transaction.internalTxIndex > 0
                 THEN db_iter(store, <<"associated-data", tx_hash, "tit">>)
                 ELSE <<>>
         IN Merge(Pop(transaction, "internalTxIndex"),
                  [ hash |-> tx_hash,
                    internalTransactions |->
                        [ i \in 1..Len(internal_tx_indexes) |->
                            decode_internal_tx(
                                store[<<"internal-tx", internal_tx_indexes[i]>>]) ] ])

\* One of the two loops of get_transactions_of_address: found is what both
\* loops have appended so far, and the loop stops once found_txs (its
\* length) reaches no_tx_list.
RECURSIVE filter_entries(_, _, _, _)
filter_entries(store, entries, q, found) ==
    IF entries = <<>> \/ Len(found) >= q.no_tx_list THEN found
    ELSE LET parts == Split(Head(entries), "-")
             value == StrToInt(parts[2])
             timestamp == StrToInt(parts[3])
         IN filter_entries(store, Tail(entries), q,
                IF /\ q.time_from <= timestamp /\ q.time_to >= timestamp
                   /\ q.val_from <= value /\ q.val_to >= value
                THEN Append(found,
                            Pop(get_transaction_by_hash(store, parts[1]),
                                "internalTransactions"))
                ELSE found)

\* The limit counted per list instead of over both.
get_transactions_of_address_per_list(store, q) ==
    IF <<"address", q.addr>> \notin DOMAIN store THEN None
    ELSE LET address == decode_address(store[<<"address", q.addr>>])
             input_tx_hashes ==
                 IF address.inputTxIndex > 0
                 THEN db_iter(store, <<"associated-data", q.addr, "i">>) ELSE <<>>
             output_tx_hashes ==
                 IF address.outputTxIndex > 0
                 THEN db_iter(store, <<"associated-data", q.addr, "o">>) ELSE <<>>
         IN PyList(filter_entries(store, input_tx_hashes, q, <<>>)
                   \o filter_entries(store, output_tx_hashes, q, <<>>))

\* DatabaseGatherer.get_transactions_of_address(addr, time_from, time_to,
\* val_from, val_to, no_tx_list); q carries the arguments.
get_transactions_of_address(store, q) ==
    IF <<"address", q.addr>> \notin DOMAIN store THEN None
    ELSE LET address == decode_address(store[<<"address", q.addr>>])
             input_tx_hashes ==
                 IF address.inputTxIndex > 0
                 THEN db_iter(store, <<"associated-data", q.addr, "i">>) ELSE <<>>
             output_tx_hashes ==
                 IF address.outputTxIndex > 0
                 THEN db_iter(store, <<"associated-data", q.addr, "o">>) ELSE <<>>
         IN PyList(filter_entries(store, output_tx_hashes, q,
                       filter_entries(store, input_tx_hashes, q, <<>>)))

\* What the iterator of get_blocks_by_datetime stands on once it has left
\* the timestamp-block-* keys.  The namespaces that sort after them are
\* token-, token-tx- and transaction-: int() of the last '-' piece of a
\* token or transaction key (an 0x address or hash), or int() of a token
\* transfer's value, leaves with ValueError.  With none of them stored the
\* iterator is past the last key, where get() has no defined result:
\* past_end is what this run made of it.
PastTheEnd == { "ValueError", "StopIteration", "abort" }
beyond_timestamps(store, past_end) ==
    IF \E k \in DOMAIN store : k[1] \in {"token", "token-tx", "transaction"}
    THEN Raised("ValueError") ELSE Raised(past_end)

\* The inner loop of get_blocks_by_datetime over the keys at and after the
\* seek position, in key order.
RECURSIVE walk_timestamps(_, _, _, _, _)
walk_timestamps(store, order, q, block_indexes, past_end) ==
    IF order = <<>> THEN beyond_timestamps(store, past_end)
    ELSE LET timestamp == Head(order)
             block_index == StrToInt(store[<<"timestamp-block", IntToStr(timestamp)>>])
         IN IF timestamp < q.block_start
            THEN walk_timestamps(store, Tail(order), q, block_indexes, past_end)
            ELSE IF timestamp > q.block_end THEN PyList(block_indexes)
            ELSE IF Len(block_indexes) + 1 >= q.limit /\ q.limit > 0
            THEN PyList(Append(block_indexes, block_index))
            ELSE walk_timestamps(store, Tail(order), q,
                                 Append(block_indexes, block_index), past_end)

\* get_blocks_by_datetime, the body of its last loop: the block of one
\* index with its transactions
block_with_transactions(store, block_index) ==
    LET block == decode_block(store[<<"block", IntToStr(block_index)>>])
        transaction_hashes == Split(block.transactions, "+")
    IN Merge(block,
             [ number |-> block_index,
               transactions |->
                   IF transaction_hashes = <<"">> THEN <<>>
                   ELSE [ i \in 1..Len(transaction_hashes) |->
                            get_transaction_by_hash(store, transaction_hashes[i]) ] ])

\* DatabaseGatherer.get_blocks_by_datetime(limit, block_start, block_end).
\* it.seek() puts the iterator on the first key that is not below
\* timestamp-block-<block_start> in byte order.
get_blocks_by_datetime(store, q, past_end) ==
    LET stamps == { StrToInt(k[2]) :
                      k \in { k \in DOMAIN store : k[1] = "timestamp-block" } }
        order == InByteOrder({ t \in stamps :
                                 ~ByteLess(Digits(t), Digits(q.block_start)) })
        walked == walk_timestamps(store, order, q, <<>>, past_end)
    IN IF "raised" \in DOMAIN walked THEN walked
       ELSE IF walked.list = <<>> THEN None
       ELSE LET \* block_indexes.sort(): the least index first, the greatest last
                first == CHOOSE n \in Range(walked.list) :
                             \A o \in Range(walked.list) : n <= o
                last == CHOOSE n \in Range(walked.list) :
                            \A o \in Range(walked.list) : n >= o
            IN PyList([ i \in 1..(last - first + 1) |->
                          block_with_transactions(store, first + i - 1) ])

\* DatabaseGatherer.get_blocks_by_indexes(index_start, index_end).  A block
\* number with nothing stored hands None to decode_block, whose
\* raw_block.decode() leaves with AttributeError.
get_blocks_by_indexes(store, q) ==
    IF \E n \in q.index_start..q.index_end : <<"block", IntToStr(n)>> \notin DOMAIN store
    THEN Raised("AttributeError")
    ELSE PyList([ i \in 1..(q.index_end - q.index_start + 1) |->
                    block_with_transactions(store, q.index_start + i - 1) ])

\* The transactions a stored block lists, each looked up by its hash.
transactions_of(store, raw_block) ==
    LET transaction_hashes == Split(decode_block(raw_block).transactions, "+")
    IN IF transaction_hashes = <<"">> THEN <<>>
       ELSE [ i \in 1..Len(transaction_hashes) |->
                get_transaction_by_hash(store, transaction_hashes[i]) ]

\* DatabaseGatherer.get_transactions_of_block_by_hash(block_hash)
get_transactions_of_block_by_hash(store, q) ==
    IF <<"hash-block", q.block_hash>> \notin DOMAIN store THEN None
    ELSE PyList(transactions_of(store,
                    store[<<"block", store[<<"hash-block", q.block_hash>>]>>]))

\* DatabaseGatherer.get_transactions_of_block_by_index(block_index): the
\* block is decoded without a test for None.
get_transactions_of_block_by_index(store, q) ==
    IF <<"block", q.block_index>> \notin DOMAIN store THEN Raised("AttributeError")
    ELSE PyList(transactions_of(store, store[<<"block", q.block_index>>]))

\* DatabaseGatherer.get_block_hash_by_index
get_block_hash_by_index(store, block_index) ==
    IF <<"block", block_index>> \notin DOMAIN store THEN None
    ELSE PyStr(decode_block(store[<<"block", block_index>>]).hash)

\* The stores the queries are asked of: each serving chain, and a chain of
\* empty blocks, ingested whole.
QueryChains == ServeChains \cup { [ n \in 1..MaxHead |-> 1 ] }
StoreOf(ch) ==
    process_batch(<<>>, CsvFiles(ch, [ i \in 1..Len(ch) |-> i - 1 ]),
                  Counters(0, 0, 0, 0)).wb

\* The arguments asked: times around the stored timestamps (one of them a
\* digit shorter), values around the stored ones, limits from none up.
QueryTimes == {1, 9} \cup { StrToInt(Timestamp(n)) : n \in 0..MaxHead }
QueryValues == {0, 5, 6}
QueryLimits == 0..(MaxHead + 1)
QueryAddresses == {A1, A2, A3, C1, "0xff"}

InitQuery == \E ch \in QueryChains : InitOn(ch, StoreOf(ch))

\* GET transactions of an address: the gatherer's answer
QueryTransactions ==
    /\ fn.op = "none"
    /\ \E addr \in QueryAddresses, no_tx_list \in QueryLimits,
          time_from \in QueryTimes, time_to \in QueryTimes,
          val_from \in QueryValues, val_to \in QueryValues :
         /\ time_from <= time_to
         /\ val_from <= val_to
         /\ \E q \in { [ addr |-> addr, time_from |-> time_from,
                         time_to |-> time_to, val_from |-> val_from,
                         val_to |-> val_to, no_tx_list |-> no_tx_list ] } :
              fn' = [ op |-> "get_transactions_of_address", q |-> q,
                      result |-> get_transactions_of_address(db, q) ]
    /\ UNCHANGED outside_fn

\* GET blocks of a time range: the gatherer's answer
QueryBlocks ==
    /\ fn.op = "none"
    /\ \E limit \in QueryLimits, block_start \in QueryTimes,
          block_end \in QueryTimes, past_end \in PastTheEnd :
         /\ block_start <= block_end
         /\ \E q \in { [ limit |-> limit, block_start |-> block_start,
                         block_end |-> block_end ] } :
              fn' = [ op |-> "get_blocks_by_datetime", q |-> q,
                      result |-> get_blocks_by_datetime(db, q, past_end) ]
    /\ UNCHANGED outside_fn

\* GET blocks of an index range: the gatherer's answer.  The endpoint
\* turns a range whose start is above its end away.
QueryIndexRange ==
    /\ fn.op = "none"
    /\ \E index_start \in 0..MaxHead, index_end \in 0..MaxHead :
         /\ index_start <= index_end
         /\ \E q \in { [ index_start |-> index_start, index_end |-> index_end ] } :
              fn' = [ op |-> "get_blocks_by_indexes", q |-> q,
                      result |-> get_blocks_by_indexes(db, q) ]
    /\ UNCHANGED outside_fn

\* GET transactions of a block, named by its hash or by its index
QueryBlockTransactions ==
    /\ fn.op = "none"
    /\ \E n \in 0..MaxHead :
         \/ fn' = [ op |-> "get_transactions_of_block_by_hash",
                    q |-> [ block_hash |-> BlockHash(n) ],
                    result |-> get_transactions_of_block_by_hash(
                                   db, [ block_hash |-> BlockHash(n) ]) ]
         \/ fn' = [ op |-> "get_transactions_of_block_by_index",
                    q |-> [ block_index |-> IntToStr(n) ],
                    result |-> get_transactions_of_block_by_index(
                                   db, [ block_index |-> IntToStr(n) ]) ]
    /\ UNCHANGED outside_fn

\* the answer is sent
QueryReturn ==
    /\ fn.op \in {"get_transactions_of_address", "get_blocks_by_datetime",
                  "get_blocks_by_indexes", "get_transactions_of_block_by_hash",
                  "get_transactions_of_block_by_index"}
    /\ fn' = NoFn
    /\ UNCHANGED outside_fn

NextQuery ==
    \/ QueryTransactions \/ QueryBlocks \/ QueryIndexRange
    \/ QueryBlockTransactions \/ QueryReturn

SpecQuery == InitQuery /\ [][NextQuery]_vars

\* ------------------------------------------------------ one batch, parsed
\* The windows the parse passes are applied to on their own: every chain of
\* up to MaxBatch blocks, ingested from block 0 into an empty store.
BatchChains == UNION { [ 1..n -> Shapes ] : n \in 1..MaxBatch }

InitBatch == \E ch \in BatchChains : InitOn(ch, <<>>)

\* create_csv_files(0, Len(chain)): the extractor runs with several workers
\* and writes the transaction rows in the order its workers deliver them;
\* transactions.csv is read afterwards as it was written.
EmitFiles ==
    /\ fn.op = "none"
    /\ \E files \in {CsvFiles(chain, WindowBlocks(0, Len(chain)))} :
         \E p \in Permutations(1..Len(files.transactions)) :
            fn' = [ op |-> "create_csv_files",
                    files |-> [files EXCEPT !.transactions =
                                  [ i \in 1..Len(@) |-> @[p[i]] ]] ]
    /\ UNCHANGED outside_fn

\* fill_database from gather_blocks to update_bulk_db on those files
ParseFiles ==
    /\ fn.op = "create_csv_files"
    /\ fn' = [ op |-> "update_bulk_db", files |-> fn.files,
               store |-> process_batch(<<>>, fn.files, Counters(0, 0, 0, 0)).wb ]
    /\ UNCHANGED outside_fn

\* the batch is written
BatchDone ==
    /\ fn.op = "update_bulk_db"
    /\ fn' = NoFn
    /\ UNCHANGED outside_fn

NextBatch == EmitFiles \/ ParseFiles \/ BatchDone

SpecBatch == InitBatch /\ [][NextBatch]_vars

\* ------------------------------------------------------------- properties
\* The numbers k of the associated-data-<a>-<tag>-<k> keys in the store.
EntryNumbers(a, tag) ==
    { k[4] : k \in { k \in DOMAIN db :
                       k[1] = "associated-data" /\ k[2] = a /\ k[3] = tag } }

StoredAddresses == { k[2] : k \in { k \in DOMAIN db : k[1] = "address" } }

\* C1: in every store the ingest leaves behind, for every stored Address a
\* and every tag of i, o, ti, to, ii, io, b, the associated-data keys of a
\* and the tag are numbered exactly 1..n, n being the matching counter of
\* the stored Address record.
CountersMatchEntries ==
    \A a \in StoredAddresses :
        \E address \in {decode_address(db[<<"address", a>>])} :
            \A tag \in Tags :
                EntryNumbers(a, tag) =
                    { IntToStr(n) : n \in 1..address[TagField[tag]] }

\* An address that, over more than one batch, mined two blocks and received
\* a token transfer and an internal transaction.
CountersMatchEntriesWitness ==
    /\ <<"address", A1>> \in DOMAIN db
    /\ decode_address(db[<<"address", A1>>]).minedIndex >= 2
    /\ decode_address(db[<<"address", A1>>]).inputTokenTxIndex >= 1
    /\ decode_address(db[<<"address", A1>>]).inputIntTxIndex >= 1
    /\ progress.highest_block >= 3

\* The hashes a stored block lists.
ListedHashes(raw_block) ==
    LET hashes == Split(decode_block(raw_block).transactions, "+")
    IN IF hashes = <<"">> THEN <<>> ELSE hashes

\* C2: in every reachable store, each hash a stored Block lists in its
\* transactions field is the key of a stored Transaction whose blockHash is
\* that Block's hash.
BlockTransactionConsistency ==
    \A k \in { k \in DOMAIN db : k[1] = "block" } :
        \A i \in 1..Len(ListedHashes(db[k])) :
            /\ <<"transaction", ListedHashes(db[k])[i]>> \in DOMAIN db
            /\ decode_transaction(db[<<"transaction", ListedHashes(db[k])[i]>>]).blockHash
                   = decode_block(db[k]).hash

\* A stored block that lists two transactions.
BlockTransactionConsistencyWitness ==
    \E k \in { k \in DOMAIN db : k[1] = "block" } : Len(ListedHashes(db[k])) = 2

\* C3: whatever the interleaving of requests and ingest batches, no request
\* comes upon a record that a Block, a Transaction or an index entry it has
\* read points to and that is not in the store, and no scan returns fewer
\* entries than the counter of the Address record read before it.
ServingIngestIsolation == ~rd.missing /\ ~rd.short

\* A request that read an Address record, after which a batch that advanced
\* the address's counter was committed, and that is about to scan.
ServingIngestIsolationWitness ==
    /\ rd.pc = "scan_o"
    /\ decode_address(db[<<"address", rd.arg>>]).outputTxIndex > rd.outputTxIndex

Min(x, y) == IF x <= y THEN x ELSE y

\* C4: a pass of the ingest loop that finds the persisted highest block H
\* and the node at height head' goes on to extract exactly
\* [H, min(head' - confirmations, H + B)), and leaves the loop without
\* extracting when that window is empty.
WindowAsSpecified ==
    [][ (pc = "window" /\ pc' \in {"extract", "balances"}) =>
          LET H == progress.highest_block
              target == Min(head' - Confirmations, H + BulkSize)
          IN IF target <= H
             THEN pc' = "balances"
             ELSE pc' = "extract" /\ loc'.latest_block = target ]_vars

\* C5: the progress file changes only right after a store commit, to a
\* highest block strictly above the one it held, and the commit covered
\* exactly the blocks from the old value up to the new one.
StrictlyIncreasingCommits ==
    [][ progress' # progress =>
          /\ ghost.commits = 1
          /\ progress'.highest_block > progress.highest_block
          /\ ghost.window = <<progress.highest_block, progress'.highest_block>> ]_vars

\* The progress file after two commits.
StrictlyIncreasingCommitsWitness ==
    /\ pc = "window"
    /\ ghost.window[1] > 0
    /\ progress.highest_block = ghost.window[2]

\* C6: a batch about to be committed starts at the highest block of
\* progress.txt, and as long as the process was only ever stopped between
\* batches the store equals the store of the run that was never stopped and
\* committed the same windows.
RestartEquivalence ==
    /\ pc \in {"lock", "commit"} => csv.blocks[1] = progress.highest_block
    /\ ~ghost.midKill => db = ghost.refdb

\* A process stopped between two batches, relaunched, that committed the
\* next batch.
RestartEquivalenceWitness ==
    /\ kills = 1
    /\ ~ghost.midKill
    /\ ghost.killedAt > 0
    /\ progress.highest_block > ghost.killedAt
    /\ \E k \in DOMAIN db : k[1] = "token-tx"

IngestHolds == pc \in {"commit", "balcommit"}
ReaderHolds == rd.pc \in {"locked", "release"}

\* C7: the store changes only in a step of the party that holds db_lock,
\* the step releases it, and the ingest task and a request are never both
\* between their acquire and their release.
WriterMutex ==
    [][ /\ db' # db => lock = "ingest" /\ lock' = "free"
        /\ ~(IngestHolds' /\ ReaderHolds') ]_vars

\* The ingest task waits for the lock a request holds.
WriterMutexWitness ==
    /\ lock = "reader"
    /\ pc = "lock"
    /\ batch.wb # <<>>

\* C8, as claimed: no request ever holds db_lock.
NoReaderTakesMutex == lock # "reader"

\* C8, as the code has it: the block and transaction handlers never hold
\* db_lock, and the address handlers hold it from before their first read
\* until they return.
AddressReadersTakeMutex ==
    /\ rd.op \in {"read_block", "get_transactions_by_address"} => lock # "reader"
    /\ (rd.op \in {"read_address", "get_balance"} /\ rd.pc \notin {"idle", "acquire"})
           => lock = "reader"

\* A balance request waits for a commit in progress.
AddressReadersTakeMutexWitness ==
    /\ rd.op = "get_balance"
    /\ rd.pc = "acquire"
    /\ pc = "commit"
    /\ lock = "ingest"

\* What a wrapper call that returned should hand to its caller.
Expected(kind, key) ==
    IF kind = "iter" THEN db_iter(db, key)
    ELSE IF key \in DOMAIN db THEN <<db[key]>> ELSE <<>>

\* C9: a wrapper call sleeps (and retries) at most RETRY_LIMIT times; a call
\* whose every attempt failed with the missing-file error has raised after
\* RETRY_LIMIT + 1 attempts; a call raises only with RETRY_LIMIT retries
\* behind it; and a call that returned hands back what the store holds.
BoundedRetry ==
    /\ rt.sleeps <= RETRY_LIMIT
    /\ rt.sleeps = rt.counter
    /\ rt.failures <= RETRY_LIMIT + 1
    /\ rt.failures = RETRY_LIMIT + 1 => rt.pc = "raised"
    /\ rt.pc = "raised" => rt.counter = RETRY_LIMIT
    /\ rt.pc = "returned" =>
          /\ rt.value = Expected(rt.kind, rt.key)
          /\ rt.kind = "get" => (rt.found <=> rt.key \in DOMAIN db)

\* A lookup that went through on the last attempt it had.
BoundedRetryWitness ==
    /\ rt.pc = "returned"
    /\ rt.sleeps = RETRY_LIMIT
    /\ rt.found

\* C10: a balance-phase write adds and removes no key, changes only Address
\* records, and in each changes nothing but the balance.
BalanceOnlyUpdate ==
    [][ (pc = "balcommit" /\ pc' \in {"chunk", "height"}) =>
          /\ DOMAIN db' = DOMAIN db
          /\ \A k \in DOMAIN db :
                db'[k] # db[k] =>
                   /\ k[1] = "address"
                   /\ decode_address(db'[k]) =
                        [ decode_address(db[k]) EXCEPT
                            !.balance = decode_address(db'[k]).balance ] ]_vars

\* A stored Address with positive counters whose balance was updated.
BalanceOnlyUpdateWitness ==
    \E a \in StoredAddresses :
        /\ decode_address(db[<<"address", a>>]).balance = BalanceOf(a)
        /\ decode_address(db[<<"address", a>>]).outputTxIndex >= 1
        /\ decode_address(db[<<"address", a>>]).minedIndex >= 1

\* C11: in a balance-phase write, an address whose answer carried no result
\* keeps its stored record as it was, every address of the same chunk that
\* was answered gets the balance the node reported, and the phase goes on
\* with the next chunk when there is one.
SkippedAddressUnchanged ==
    [][ (pc = "balcommit" /\ pc' \in {"chunk", "height"}) =>
          /\ \A a \in DOMAIN bal.response :
                <<"address", a>> \in DOMAIN db =>
                   IF bal.response[a] = NoResult
                   THEN db'[<<"address", a>>] = db[<<"address", a>>]
                   ELSE decode_address(db'[<<"address", a>>]).balance = BalanceOf(a)
          /\ bal.continue_iteration => pc' = "chunk" ]_vars

\* A chunk of two addresses was written, one answered and one not, and the
\* next chunk is due.
SkippedAddressUnchangedWitness ==
    /\ pc = "chunk"
    /\ \E a, b \in DOMAIN bal.response :
          /\ bal.response[a] = NoResult
          /\ bal.response[b] # NoResult
          /\ decode_address(db[<<"address", a>>]).balance = "null"
          /\ decode_address(db[<<"address", b>>]).balance = BalanceOf(b)

\* C12: when a balance phase is over, no address is left that an earlier
\* sync cycle's balance phase skipped for want of a result and that this
\* phase did not ask the node about again.
SkippedRequestedNextCycle == pc = "height" => ghost.owed = {}

\* C13: every address whose Address record a batch commit writes is a line
\* of the spill file when the commit happens, put there by that batch.
TouchedAddressesSpilled ==
    [][ (pc = "commit" /\ pc' = "progress") =>
          \A k \in { k \in DOMAIN batch.wb : k[1] = "address" } :
              k[2] \in Range(spill.lines) ]_vars

\* C14: fill_database signals that it fell behind exactly when the height
\* read after the balance phase, less the confirmations, is 3 or more above
\* the target the balance phase started from; on the signal update_database
\* starts another iteration from a fresh loop state, and without it
\* update_database returns.
FellBehindRestarts ==
    [][ pc = "height" /\ pc' \in {"window", "sleep"} =>
          IF head' - Confirmations - loc.last_block >= 3
          THEN /\ pc' = "window"
               /\ loc'.batch_index = 0 /\ ~loc'.stop_iteration
               /\ ghost'.iterations = ghost.iterations + 1
          ELSE pc' = "sleep" /\ ghost'.iterations = ghost.iterations ]_vars

\* update_database returned after a second iteration that the first one's
\* signal started and that committed blocks.
FellBehindRestartsWitness ==
    /\ pc = "sleep"
    /\ ghost.iterations = 2
    /\ progress.highest_block >= 3

\* The token-transfer rows of the batch in hand whose token is in the store
\* or among the tokens of the batch.
KnownTransfers ==
    LET files == CsvFiles(chain, csv.blocks)
    IN { i \in 1..Len(files.token_transfers) :
           \/ <<"token", files.token_transfers[i].token_address>> \in DOMAIN db
           \/ \E j \in 1..Len(files.tokens) :
                 files.tokens[j].address = files.token_transfers[i].token_address }

TokenTxKeys(store) == { k \in DOMAIN store : k[1] = "token-tx" }

\* C15: every stored TokenTransfer names a token that has a Token record in
\* the store, the stored transfers are numbered 1..n without a gap, and a
\* batch ready to be written gives an index, the next ones after the
\* persisted counter, to exactly the transfers whose token is known to the
\* store or to the batch.
TokenFilter ==
    /\ \A k \in TokenTxKeys(db) :
          <<"token", decode_token_tx(db[k]).tokenAddress>> \in DOMAIN db
    /\ { k[2] : k \in TokenTxKeys(db) } =
          { IntToStr(n) : n \in 1..Cardinality(TokenTxKeys(db)) }
    /\ pc \in {"lock", "commit"} =>
          /\ mem.highest_token_tx =
                progress.highest_token_tx + Cardinality(KnownTransfers)
          /\ { k[2] : k \in TokenTxKeys(batch.wb) } =
                { IntToStr(n) : n \in (progress.highest_token_tx + 1)
                                         ..mem.highest_token_tx }

\* The transfers of block 0 were dropped because their token was created
\* later, and transfers of a later block are stored from index 1.
TokenFilterWitness ==
    /\ Len(chain) >= 3 /\ chain[1] = 4
    /\ <<"token-tx", "1">> \in DOMAIN db
    /\ decode_token_tx(db[<<"token-tx", "1">>]).transactionHash # TxHash(0, 0)
    /\ <<"transaction", TxHash(0, 0)>> \in DOMAIN db

\* C16: for each of the six record types, decoding what encode produced
\* gives back the record, and encoding what decode returned gives back the
\* bytes.
CodecRoundTrip ==
    /\ fn.op \in {"decoded", "reencoded"} => fn.decoded = fn.record
    /\ fn.op = "reencoded" => fn.reencoded = fn.encoded

\* The associated-data entries (their keys) stored for q.addr under tag
\* whose timestamp and value lie inside q's ranges, and the transaction hash
\* an entry names.
MatchingEntries(q, tag) ==
    { k \in DOMAIN db :
        /\ k[1] = "associated-data"
        /\ k[2] = q.addr
        /\ k[3] = tag
        /\ q.time_from <= StrToInt(Split(db[k], "-")[3])
        /\ StrToInt(Split(db[k], "-")[3]) <= q.time_to
        /\ q.val_from <= StrToInt(Split(db[k], "-")[2])
        /\ StrToInt(Split(db[k], "-")[2]) <= q.val_to }
EntryHash(k) == Split(db[k], "-")[1]

\* C17: get-transactions-of-address(addr, [t0,t1], [v0,v1], limit) answers
\* NotFound for an address with no stored record; for a stored address it
\* answers a list of stored transactions, input ones first and output ones
\* after them, each named by an associated-data entry of the address whose
\* timestamp and value lie in the ranges, at most limit of them in total,
\* and all of the matching ones when fewer than limit match.
TransactionsOfAddress ==
    fn.op = "get_transactions_of_address" =>
        LET q == fn.q
            ins == MatchingEntries(q, "i")
            outs == MatchingEntries(q, "o")
        IN IF <<"address", q.addr>> \notin DOMAIN db THEN fn.result = None
           ELSE /\ "list" \in DOMAIN fn.result
                /\ Len(fn.result.list) <= q.no_tx_list
                /\ \A i \in 1..Len(fn.result.list) :
                     /\ <<"transaction", fn.result.list[i].hash>> \in DOMAIN db
                     /\ fn.result.list[i].value =
                          decode_transaction(
                              db[<<"transaction", fn.result.list[i].hash>>]).value
                /\ \E n \in 0..Len(fn.result.list) :
                     /\ \A i \in 1..n :
                          fn.result.list[i].hash \in { EntryHash(k) : k \in ins }
                     /\ \A i \in (n + 1)..Len(fn.result.list) :
                          fn.result.list[i].hash \in { EntryHash(k) : k \in outs }
                /\ Cardinality(ins) + Cardinality(outs) < q.no_tx_list =>
                     /\ Len(fn.result.list) = Cardinality(ins) + Cardinality(outs)
                     /\ \A k \in ins \cup outs :
                          \E i \in 1..Len(fn.result.list) :
                              fn.result.list[i].hash = EntryHash(k)

\* An answer cut at a limit of two: the value range lets one of the
\* address's input entries through and leaves another out, so the second
\* transaction of the answer is an output one, and one more output entry
\* that matches is left behind by the limit.
TransactionsOfAddressWitness ==
    /\ fn.op = "get_transactions_of_address"
    /\ "list" \in DOMAIN fn.result
    /\ fn.q.no_tx_list = 2
    /\ fn.q.val_to = 0
    /\ Len(fn.result.list) = 2
    /\ Cardinality(MatchingEntries(fn.q, "i")) = 1
    /\ Cardinality(MatchingEntries(fn.q, "o")) = 2
    /\ fn.result.list[2].from = fn.q.addr
    /\ \E k \in DOMAIN db :
         /\ k[1] = "associated-data" /\ k[2] = fn.q.addr /\ k[3] = "i"
         /\ k \notin MatchingEntries(fn.q, "i")

\* C18: the list get-transactions-of-address answers names no transaction
\* twice, a transaction the address sent to itself included.
NoDuplicateTransactions ==
    (fn.op = "get_transactions_of_address" /\ "list" \in DOMAIN fn.result) =>
        \A i, j \in 1..Len(fn.result.list) :
            fn.result.list[i].hash = fn.result.list[j].hash => i = j

\* The stored blocks (their keys) whose timestamp lies in [q.block_start,
\* q.block_end].
BlocksInRange(q) ==
    { k \in DOMAIN db :
        /\ k[1] = "block"
        /\ q.block_start <= StrToInt(decode_block(db[k]).timestamp)
        /\ StrToInt(decode_block(db[k]).timestamp) <= q.block_end }

\* C19: get-blocks-by-time(limit, [t0,t1]) with limit not smaller than the
\* number of stored blocks whose timestamp lies in [t0,t1] answers exactly
\* those blocks, by ascending number, each with the transactions it lists;
\* with 0 < limit the answer holds at most limit blocks.
BlocksByTime ==
    fn.op = "get_blocks_by_datetime" =>
        /\ (BlocksInRange(fn.q) # {} /\ fn.q.limit >= Cardinality(BlocksInRange(fn.q))) =>
             /\ "list" \in DOMAIN fn.result
             /\ Len(fn.result.list) = Cardinality(BlocksInRange(fn.q))
             /\ \A i \in 1..Len(fn.result.list) :
                  /\ <<"block", IntToStr(fn.result.list[i].number)>> \in BlocksInRange(fn.q)
                  /\ \A j \in 1..(i - 1) :
                       fn.result.list[j].number < fn.result.list[i].number
                  /\ LET listed == ListedHashes(
                             db[<<"block", IntToStr(fn.result.list[i].number)>>])
                     IN /\ Len(fn.result.list[i].transactions) = Len(listed)
                        /\ \A t \in 1..Len(listed) :
                             fn.result.list[i].transactions[t].hash = listed[t]
        /\ (fn.q.limit > 0 /\ "list" \in DOMAIN fn.result) =>
             Len(fn.result.list) <= fn.q.limit

\* C20: get-blocks-by-time answers NotFound, and does not fail, whenever no
\* stored block has its timestamp in [t0,t1], also when the walk from
\* timestamp-block-<t0> comes to the last timestamp-block-* key or to a key
\* of another namespace before a timestamp above t1.
NoBlocksIsNotFound ==
    (fn.op = "get_blocks_by_datetime" /\ BlocksInRange(fn.q) = {}) =>
        fn.result = None

\* C21: get-blocks-by-index-range([i0,i1]) answers the blocks i0..i1 in
\* ascending order, each with the transactions it lists, when all of them
\* are stored, and answers NotFound when some number of [i0,i1] has no
\* stored Block record.
BlocksByIndexRange ==
    fn.op = "get_blocks_by_indexes" =>
        IF \A n \in fn.q.index_start..fn.q.index_end : <<"block", IntToStr(n)>> \in DOMAIN db
        THEN /\ "list" \in DOMAIN fn.result
             /\ Len(fn.result.list) = fn.q.index_end - fn.q.index_start + 1
             /\ \A i \in 1..Len(fn.result.list) :
                  /\ fn.result.list[i].number = fn.q.index_start + i - 1
                  /\ fn.result.list[i].hash =
                       decode_block(db[<<"block", IntToStr(fn.q.index_start + i - 1)>>]).hash
                  /\ LET listed == ListedHashes(
                             db[<<"block", IntToStr(fn.q.index_start + i - 1)>>])
                     IN /\ Len(fn.result.list[i].transactions) = Len(listed)
                        /\ \A t \in 1..Len(listed) :
                             fn.result.list[i].transactions[t].hash = listed[t]
        ELSE fn.result = None

\* C22: get-transactions-of-block-by-hash and -by-index answer the
\* transactions of a stored block in the order of its transactions field
\* (the empty list for an empty block), and both answer NotFound when no
\* block of that hash or index is stored.
TransactionsOfBlock ==
    /\ fn.op = "get_transactions_of_block_by_hash" =>
          IF <<"hash-block", fn.q.block_hash>> \in DOMAIN db
          THEN /\ "list" \in DOMAIN fn.result
               /\ [ i \in 1..Len(fn.result.list) |-> fn.result.list[i].hash ]
                    = ListedHashes(db[<<"block", db[<<"hash-block", fn.q.block_hash>>]>>])
          ELSE fn.result = None
    /\ fn.op = "get_transactions_of_block_by_index" =>
          IF <<"block", fn.q.block_index>> \in DOMAIN db
          THEN /\ "list" \in DOMAIN fn.result
               /\ [ i \in 1..Len(fn.result.list) |-> fn.result.list[i].hash ]
                    = ListedHashes(db[<<"block", fn.q.block_index>>])
          ELSE fn.result = None

\* C23: when the store or the upstream node fails during a batch, the batch
\* is given up without a write of the progress file, the ingest task stays
\* alive, and it waits for the refresh interval before the outer loop tries
\* again from the persisted highest block.
FailureRetriesAfterRefresh ==
    [][ Fault => (progress' = progress /\ db' = db /\ pc' = "sleep") ]_vars

\* The addresses of the tokens a store holds.
StoredTokens(store) == { k[2] : k \in { k \in DOMAIN store : k[1] = "token" } }

\* C24: in every store the ingest leaves behind, the keys
\* associated-data-<tokenAddr>-tt-<k> of a stored Token are exactly
\* k = 1..txIndex, and no commit lowers the txIndex of a stored Token, also
\* when the token is in the token list of a later batch again.
TokenTxIndexMonotone ==
    /\ [](\A t \in StoredTokens(db) :
            EntryNumbers(t, "tt") =
                { IntToStr(n) : n \in 1..decode_token(db[<<"token", t>>]).txIndex })
    /\ [][ \A t \in StoredTokens(db) :
             /\ t \in StoredTokens(db')
             /\ decode_token(db'[<<"token", t>>]).txIndex
                    >= decode_token(db[<<"token", t>>]).txIndex ]_vars

\* C25: every Token record in the store has the type ERC-20 or ERC-721,
\* also when the address of the token's contract had an Address record
\* before the batch that created the token.
TokenTypeSet ==
    \A t \in StoredTokens(db) :
        decode_token(db[<<"token", t>>]).type \in {"ERC-20", "ERC-721"}

\* C26: at the commit of a batch, for its i-th contract row the store takes
\* address-contract-<n> -> bytecode, n being the highest-contract-code as
\* that row incremented it, and the Address record stored for the row's
\* address carries code = <n> of its last row and, for a flagged row, the
\* classification ERC-20 or ERC-721, also when the address had a stored
\* Address record before the batch.
ContractCodeAssigned ==
    [][ (pc = "commit" /\ pc' = "progress") =>
          LET rows == RowsOf(ContractRows, chain, csv.blocks)
              n(i) == mem.highest_contract_code - Len(rows) + i
              last(i) == \A j \in (i + 1)..Len(rows) : rows[j].address # rows[i].address
          IN \A i \in 1..Len(rows) :
                /\ <<"address-contract", IntToStr(n(i))>> \in DOMAIN db'
                /\ db'[<<"address-contract", IntToStr(n(i))>>] = rows[i].bytecode
                /\ <<"address", rows[i].address>> \in DOMAIN db'
                /\ last(i) =>
                     /\ decode_address(db'[<<"address", rows[i].address>>]).code
                            = IntToStr(n(i))
                     /\ rows[i].is_erc20 = "True" =>
                            decode_address(db'[<<"address", rows[i].address>>]).tokenContract
                                = "ERC-20"
                     /\ rows[i].is_erc721 = "True" =>
                            decode_address(db'[<<"address", rows[i].address>>]).tokenContract
                                = "ERC-721" ]_vars

\* C27: once an Address record is stored, every later stored version of it
\* has the same code and the same tokenContract, whatever structural and
\* balance updates follow.
CodeAndTypeImmutable ==
    [][ \A a \in StoredAddresses :
          /\ <<"address", a>> \in DOMAIN db'
          /\ decode_address(db'[<<"address", a>>]).code
                 = decode_address(db[<<"address", a>>]).code
          /\ decode_address(db'[<<"address", a>>]).tokenContract
                 = decode_address(db[<<"address", a>>]).tokenContract ]_vars

\* The contract created in the first batch has since been called in a
\* batch of its own and been given a balance, and is still the ERC-20
\* contract with code 1.
CodeAndTypeImmutableWitness ==
    /\ chain = <<1, 3, 4>>
    /\ ghost.window = <<2, 3>>
    /\ <<"address", C1>> \in DOMAIN db
    /\ decode_address(db[<<"address", C1>>]).code = "1"
    /\ decode_address(db[<<"address", C1>>]).tokenContract = "ERC-20"
    /\ decode_address(db[<<"address", C1>>]).inputTxIndex = 1
    /\ decode_address(db[<<"address", C1>>]).balance = "7"

\* C28: a structural update of an Address that is already stored leaves its
\* balance field as it was, so a balance once stored as resolved is never
\* null again.
StructuralUpdateKeepsBalance ==
    [][ (pc = "commit" /\ pc' = "progress") =>
          \A a \in StoredAddresses :
              decode_address(db'[<<"address", a>>]).balance
                  = decode_address(db[<<"address", a>>]).balance ]_vars

\* The positions of the ingest task inside the balance phase.
BalancePhase == {"chunk", "ballock", "balcommit"}

\* C29: in one sync iteration the balance phase is entered only from the
\* end of the window loop and is left only for the end of the iteration,
\* so no structural commit follows a balance commit of the same iteration;
\* each of its requests names at most BulkSize addresses; by its last
\* write every distinct address of the spill file has been requested
\* exactly once, and after it the spill file does not exist.
BalancePhaseLast ==
    [][ /\ (pc \notin BalancePhase /\ pc' \in BalancePhase) => pc = "balances"
        /\ pc' = "balances" => pc \in {"window", "progress"}
        /\ pc \in BalancePhase => pc' \in BalancePhase \cup {"height", "start"}
        /\ (pc = "chunk" /\ pc' = "ballock") =>
              Len(ghost'.requested) - Len(ghost.requested) <= BulkSize
        /\ (pc = "balcommit" /\ pc' = "height") =>
              /\ Range(ghost.requested) = Range(spill.lines) \ {""}
              /\ Len(ghost.requested) = Cardinality(Range(ghost.requested))
              /\ ~spill'.exists ]_vars

\* The last write of a balance phase that asked for three addresses, more
\* than one request holds.
BalancePhaseLastWitness ==
    /\ pc = "balcommit"
    /\ ~bal.continue_iteration
    /\ Len(ghost.requested) = 3

\* C30: when the process stops after the store commit of a batch and
\* before the rewrite of the progress file, and the relaunched process
\* ingests the same window again, the store after the second commit equals
\* the store after the first: no associated-data entry is written twice
\* and no counter or index advances a second time.
ReingestIdempotent ==
    [][ ( /\ pc = "commit"
          /\ pc' = "progress"
          /\ ghost.window = << csv.blocks[1], csv.blocks[Len(csv.blocks)] + 1 >> )
        => db' = db ]_vars

\* The transaction_index of the transactions.csv row with this hash.
TxIndexOf(files, hash) ==
    StrToInt((CHOOSE r \in Range(files.transactions) : r.hash = hash).transaction_index)

\* C31: each stored block's transactions field lists its transaction hashes
\* in ascending transaction_index order, whatever order the extractor
\* emitted the transaction rows in.
TransactionsInIndexOrder ==
    fn.op = "update_bulk_db" =>
        \A k \in { k \in DOMAIN fn.store : k[1] = "block" } :
            \A i, j \in 1..Len(ListedHashes(fn.store[k])) :
                i < j => TxIndexOf(fn.files, ListedHashes(fn.store[k])[i])
                           < TxIndexOf(fn.files, ListedHashes(fn.store[k])[j])

\* C32: in every reachable store, for every stored Block b,
\* hash-block-<b.hash> maps to b's number, timestamp-block-<b.timestamp>
\* maps to b's number, and get_block_hash_by_index of that number returns
\* b.hash.
BlockIndices ==
    \A k \in { k \in DOMAIN db : k[1] = "block" } :
        LET b == decode_block(db[k])
        IN /\ <<"hash-block", b.hash>> \in DOMAIN db
           /\ db[<<"hash-block", b.hash>>] = k[2]
           /\ <<"timestamp-block", b.timestamp>> \in DOMAIN db
           /\ db[<<"timestamp-block", b.timestamp>>] = k[2]
           /\ get_block_hash_by_index(db, k[2]) = PyStr(b.hash)

\* Three blocks stored and covered by the progress file.
BlockIndicesWitness ==
    /\ progress.highest_block = 3
    /\ { <<"block", "0">>, <<"block", "1">>, <<"block", "2">> } \subseteq DOMAIN db

\* The local numbers k of the associated-data-<h>-tit-<k> keys in the store.
TitNumbers(h) ==
    { e[4] : e \in { e \in DOMAIN db :
                        e[1] = "associated-data" /\ e[2] = h /\ e[3] = "tit" } }

\* The internal-tx record the k-th tit entry of transaction h names.
TitRecord(h, k) ==
    decode_internal_tx(
        db[<<"internal-tx", db[<<"associated-data", h, "tit", IntToStr(k)>>]>>])

\* C33: for every stored Transaction t the keys
\* associated-data-<t.hash>-tit-<k> present are exactly k =
\* 1..t.internalTxIndex, each value is the global index of a stored
\* internal-tx record whose transactionHash is t.hash, and
\* get_transaction_by_hash returns exactly those internal transactions.
InternalTxLinks ==
    \A key \in { key \in DOMAIN db : key[1] = "transaction" } :
        \E t \in {decode_transaction(db[key])},
           listed \in {get_transaction_by_hash(db, key[2]).internalTransactions} :
            /\ TitNumbers(key[2]) = { IntToStr(k) : k \in 1..t.internalTxIndex }
            /\ \A k \in 1..t.internalTxIndex :
                  /\ <<"internal-tx", db[<<"associated-data", key[2], "tit", IntToStr(k)>>]>>
                         \in DOMAIN db
                  /\ TitRecord(key[2], k).transactionHash = key[2]
            /\ Len(listed) = t.internalTxIndex
            /\ Range(listed) = { TitRecord(key[2], k) : k \in 1..t.internalTxIndex }

\* Two stored transactions with two internal transactions each, numbered
\* 1, 2 and 3, 4 in the store.
InternalTxLinksWitness ==
    /\ \E h1, h2 \in { key[2] : key \in { key \in DOMAIN db : key[1] = "transaction" } } :
          /\ h1 # h2
          /\ TitNumbers(h1) = {"1", "2"}
          /\ TitNumbers(h2) = {"1", "2"}
          /\ db[<<"associated-data", h2, "tit", "2">>] = "4"
    /\ progress.highest_internal_tx = 4

\* The logs.csv rows of transaction h, in file order.
LogRowsOf(files, h) ==
    SelectSeq(files.logs, LAMBDA r : r.transaction_hash = h)

\* topic-topic-...
RECURSIVE TopicsForm(_)
TopicsForm(topics) ==
    IF topics = <<>> THEN <<>>
    ELSE IF Len(topics) = 1 THEN topics
    ELSE <<Head(topics), "-">> \o TopicsForm(Tail(topics))

\* data+topic-topic-...|data+...
RECURSIVE LogsForm(_)
LogsForm(rows) ==
    IF rows = <<>> THEN <<>>
    ELSE <<Head(rows).data, "+">> \o TopicsForm(Head(rows).topics)
           \o (IF Len(rows) = 1 THEN <<>> ELSE <<"|">> \o LogsForm(Tail(rows)))

\* C34: for a transaction with k >= 1 log rows, the stored logs field has
\* the form data+topic-topic-...|data+... with one entry per log row in row
\* order, and decoding the stored Transaction yields exactly k log entries,
\* each with that row's data and its list of topics.
StoredLogs ==
    fn.op = "update_bulk_db" =>
        \A key \in { key \in DOMAIN fn.store : key[1] = "transaction" } :
            \E rows \in {LogRowsOf(fn.files, key[2])} :
                rows # <<>> =>
                    /\ StripLast(fn.store[key][12], "|") = LogsForm(rows)
                    /\ decode_transaction(fn.store[key]).logs
                          = [ i \in 1..Len(rows) |->
                                [ data |-> rows[i].data, topics |-> rows[i].topics ] ]

\* The numbers n (as written in the key) of the <kind>-<n> keys of a store.
KeyNumbers(store, kind) ==
    { k[2] : k \in { k \in DOMAIN store : k[1] = kind } }

\* C35: after each progress-file write with highest-block H the store holds
\* a Block record for exactly the block numbers 0..H-1, with no gap and no
\* block at or above H, and as many hash-block and timestamp-block entries.
BlocksCoverProgress ==
    [][ (pc = "progress" /\ pc' \in {"window", "balances"}) =>
           /\ KeyNumbers(db', "block")
                 = { IntToStr(n) : n \in 0..(progress'.highest_block - 1) }
           /\ Cardinality(KeyNumbers(db', "hash-block")) = progress'.highest_block
           /\ Cardinality(KeyNumbers(db', "timestamp-block")) = progress'.highest_block
      ]_vars

\* The progress file just written a second time, blocks 0, 1 and 2 stored.
BlocksCoverProgressWitness ==
    /\ pc = "balances"
    /\ ghost.window = <<2, 3>>
    /\ progress.highest_block = 3
    /\ Cardinality(KeyNumbers(db, "block")) = 3

\* The three kinds of globally numbered records.
GlobalKinds == {"token-tx", "internal-tx", "address-contract"}

\* C36: the three global indices are allocated without reuse or gaps: after
\* each progress-file write the keys token-tx-<k>, internal-tx-<k> and
\* address-contract-<k> present in the store are exactly k =
\* 1..highest-token-tx, 1..highest-internal-tx and 1..highest-contract-code,
\* and no such key is ever written by two different commits.
GlobalIndicesDense ==
    [][ /\ (pc = "progress" /\ pc' \in {"window", "balances"}) =>
             /\ KeyNumbers(db', "token-tx")
                   = { IntToStr(k) : k \in 1..progress'.highest_token_tx }
             /\ KeyNumbers(db', "internal-tx")
                   = { IntToStr(k) : k \in 1..progress'.highest_internal_tx }
             /\ KeyNumbers(db', "address-contract")
                   = { IntToStr(k) : k \in 1..progress'.highest_contract_code }
        /\ (pc = "commit" /\ pc' = "progress") =>
             \A k \in DOMAIN batch.wb : k[1] \in GlobalKinds => k \notin DOMAIN db
      ]_vars

\* C36 as amended: after each progress-file write the keys token-tx-<k>,
\* internal-tx-<k> and address-contract-<k> present in the store are
\* exactly k = 1..highest-token-tx, 1..highest-internal-tx and
\* 1..highest-contract-code, and a commit writes such a key a second time
\* only when its window starts at a block that is already stored (the
\* window of a run killed between the store write and the progress write,
\* ingested again after the relaunch).
GlobalIndicesDenseButReingest ==
    [][ /\ (pc = "progress" /\ pc' \in {"window", "balances"}) =>
             /\ KeyNumbers(db', "token-tx")
                   = { IntToStr(k) : k \in 1..progress'.highest_token_tx }
             /\ KeyNumbers(db', "internal-tx")
                   = { IntToStr(k) : k \in 1..progress'.highest_internal_tx }
             /\ KeyNumbers(db', "address-contract")
                   = { IntToStr(k) : k \in 1..progress'.highest_contract_code }
        /\ (/\ pc = "commit" /\ pc' = "progress"
            /\ <<"block", IntToStr(csv.blocks[1])>> \notin DOMAIN db) =>
             \A k \in DOMAIN batch.wb : k[1] \in GlobalKinds => k \notin DOMAIN db
      ]_vars

\* The progress file written after a window was ingested twice around a
\* kill, with records of all three kinds in the store.
GlobalIndicesDenseButReingestWitness ==
    /\ pc \in {"window", "balances"}
    /\ kills = 1
    /\ ghost.midKill
    /\ progress.highest_block = 3
    /\ progress.highest_internal_tx = 2
    /\ progress.highest_token_tx = 2
    /\ progress.highest_contract_code = 1

\* C37: the writer mutex is released on every path: whenever a reader
\* handler that took the mutex or a writer commit finishes, normally or by
\* raising, the mutex is free afterwards, so in no reachable state is the
\* mutex held by a party that is no longer running.
MutexReleasedOnEveryPath ==
    /\ pc = "dead" => lock # "ingest"
    /\ rd.pc = "idle" => lock # "reader"

\* C38: db_get_wrapper and db_iter_wrapper terminate for every sequence of
\* store outcomes: each call returns a result or raises, for missing-file
\* I/O errors and for any other I/O error alike.
WrappersTerminate ==
    (rt.pc = "try") ~> (rt.pc \in {"returned", "raised"})

\* C39: under fair scheduling of the ingest task and with the upstream node
\* and store always answering, every block number n that satisfies
\* n < head - confirmations at some moment is eventually committed to the
\* store and covered by the persisted highest-block.
EveryConfirmedBlockIngested ==
    \A n \in 0..(MaxHead - 1) :
        (n < head - Confirmations)
            ~> (<<"block", IntToStr(n)>> \in DOMAIN db /\ progress.highest_block > n)

====
